---- MODULE Spec2Model ----
(***************************************************************************)
(* Trip settlement and reconciliation of the book-distribution dashboard.  *)
(*                                                                         *)
(* The module models the client-side computations of three pages:          *)
(*   - ActiveTripsPage  (getSoldForItem, computeTripSummary, pageSummary,  *)
(*                       groupedTrips, the edit handlers),                 *)
(*   - ReportsPage      (getItemMetrics, overall, bookSummaries,           *)
(*                       distributorData),                                 *)
(*   - Dashboard        (dailyAggs).                                       *)
(*                                                                         *)
(* JavaScript values are tagged records: a field that the JSON of the      *)
(* backend may omit is Undefined, a number n is Num(n).  Strings that the  *)
(* code slices (dates) are sequences of one-character strings.             *)
(***************************************************************************)
EXTENDS Integers, Sequences, FiniteSets, TLC

(* ------------------------------------------------------------------ *)
(* Bounds of the model                                                  *)
(* ------------------------------------------------------------------ *)
MaxQty == 2
MaxAmt == 2
MaxPrice == 2
MaxItems == 2
MaxTrips == 2
MaxDays == 8
MaxRequests == 2
MaxSaves == 2

(* ------------------------------------------------------------------ *)
(* JavaScript values                                                    *)
(* ------------------------------------------------------------------ *)
Undefined == [t |-> "undefined"]
Null == [t |-> "null"]
NaN == [t |-> "NaN"]
Num(n) == [t |-> "number", v |-> n]
Str(s) == [t |-> "string", s |-> s]
BookId(id) == Str(id)
BookObj(id, name, price) ==
  [t |-> "object", _id |-> id, productName |-> name, salePrice |-> price]
None == [t |-> "none"]

Max(a, b) == IF a >= b THEN a ELSE b
Min(a, b) == IF a <= b THEN a ELSE b

\* the sum of a sequence of integers, from the right
RECURSIVE SumSeq(_)
SumSeq(s) ==
  IF s = <<>> THEN 0 ELSE s[Len(s)] + SumSeq(SubSeq(s, 1, Len(s) - 1))

\* x ?? d
Coalesce(x, d) == IF x.t \in {"undefined", "null"} THEN d ELSE x

\* typeof x === "number" && !Number.isNaN(x)
IsRealNumber(x) == x.t = "number"

\* book?.salePrice : undefined on null/undefined, and on a string (a bare id
\* has no salePrice property)
OptSalePrice(book) ==
  IF book.t = "object" THEN book.salePrice ELSE Undefined

\* item.book?.salePrice ?? 0
PriceOf(book) == Coalesce(OptSalePrice(book), Num(0)).v

(* ------------------------------------------------------------------ *)
(* ReportsPage: getItemMetrics                                          *)
(* ------------------------------------------------------------------ *)
getItemMetrics_NoMax(item, price) ==
  LET quantityOut == Coalesce(item.quantityOut, Num(0)).v
      quantityReturn == Coalesce(item.quantityReturn, Num(0)).v
      itemRemaining == quantityOut - quantityReturn
      rawSold == IF IsRealNumber(item.quantitySold)
                   THEN item.quantitySold.v ELSE itemRemaining
      quantitySold == Max(0, Min(rawSold, itemRemaining))
      remaining == Max(itemRemaining - quantitySold, 0)
      expectedAmount == itemRemaining * price
      amountCollected == Coalesce(item.amountReturned, Num(0)).v
      difference == amountCollected - expectedAmount
  IN [quantityOut |-> quantityOut, quantityReturn |-> quantityReturn,
      itemRemaining |-> itemRemaining, quantitySold |-> quantitySold,
      remaining |-> remaining, expectedAmount |-> expectedAmount,
      amountCollected |-> amountCollected, difference |-> difference]

getItemMetrics_FallbackZero(item, price) ==
  LET quantityOut == Coalesce(item.quantityOut, Num(0)).v
      quantityReturn == Coalesce(item.quantityReturn, Num(0)).v
      itemRemaining == Max(quantityOut - quantityReturn, 0)
      rawSold == IF IsRealNumber(item.quantitySold)
                   THEN item.quantitySold.v ELSE 0
      quantitySold == Max(0, Min(rawSold, itemRemaining))
      remaining == Max(itemRemaining - quantitySold, 0)
      expectedAmount == itemRemaining * price
      amountCollected == Coalesce(item.amountReturned, Num(0)).v
      difference == amountCollected - expectedAmount
  IN [quantityOut |-> quantityOut, quantityReturn |-> quantityReturn,
      itemRemaining |-> itemRemaining, quantitySold |-> quantitySold,
      remaining |-> remaining, expectedAmount |-> expectedAmount,
      amountCollected |-> amountCollected, difference |-> difference]

getItemMetrics_ExpectedFromSold(item, price) ==
  LET quantityOut == Coalesce(item.quantityOut, Num(0)).v
      quantityReturn == Coalesce(item.quantityReturn, Num(0)).v
      itemRemaining == Max(quantityOut - quantityReturn, 0)
      rawSold == IF IsRealNumber(item.quantitySold)
                   THEN item.quantitySold.v ELSE itemRemaining
      quantitySold == Max(0, Min(rawSold, itemRemaining))
      remaining == Max(itemRemaining - quantitySold, 0)
      expectedAmount == quantitySold * price
      amountCollected == Coalesce(item.amountReturned, Num(0)).v
      difference == amountCollected - expectedAmount
  IN [quantityOut |-> quantityOut, quantityReturn |-> quantityReturn,
      itemRemaining |-> itemRemaining, quantitySold |-> quantitySold,
      remaining |-> remaining, expectedAmount |-> expectedAmount,
      amountCollected |-> amountCollected, difference |-> difference]

getItemMetrics_RemainingFromRaw(item, price) ==
  LET quantityOut == Coalesce(item.quantityOut, Num(0)).v
      quantityReturn == Coalesce(item.quantityReturn, Num(0)).v
      itemRemaining == Max(quantityOut - quantityReturn, 0)
      rawSold == IF IsRealNumber(item.quantitySold)
                   THEN item.quantitySold.v ELSE itemRemaining
      quantitySold == Max(0, Min(rawSold, itemRemaining))
      remaining == Max(itemRemaining - rawSold, 0)
      expectedAmount == itemRemaining * price
      amountCollected == Coalesce(item.amountReturned, Num(0)).v
      difference == amountCollected - expectedAmount
  IN [quantityOut |-> quantityOut, quantityReturn |-> quantityReturn,
      itemRemaining |-> itemRemaining, quantitySold |-> quantitySold,
      remaining |-> remaining, expectedAmount |-> expectedAmount,
      amountCollected |-> amountCollected, difference |-> difference]

getItemMetrics(item, price) ==
  LET quantityOut == Coalesce(item.quantityOut, Num(0)).v
      quantityReturn == Coalesce(item.quantityReturn, Num(0)).v
      itemRemaining == Max(quantityOut - quantityReturn, 0)
      rawSold == IF IsRealNumber(item.quantitySold)
                   THEN item.quantitySold.v ELSE itemRemaining
      quantitySold == Max(0, Min(rawSold, itemRemaining))
      remaining == Max(itemRemaining - quantitySold, 0)
      expectedAmount == itemRemaining * price
      amountCollected == Coalesce(item.amountReturned, Num(0)).v
      difference == amountCollected - expectedAmount
  IN [quantityOut |-> quantityOut, quantityReturn |-> quantityReturn,
      itemRemaining |-> itemRemaining, quantitySold |-> quantitySold,
      remaining |-> remaining, expectedAmount |-> expectedAmount,
      amountCollected |-> amountCollected, difference |-> difference]

(* ------------------------------------------------------------------ *)
(* ActiveTripsPage: getSoldForItem and the item row of the table        *)
(* ------------------------------------------------------------------ *)
getSoldForItem_NoUpperClamp(item) ==
  LET rawSold == IF IsRealNumber(item.quantitySold)
                   THEN item.quantitySold.v ELSE 0
  IN Max(0, rawSold)

getSoldForItem(item) ==
  LET qtyOut == Coalesce(item.quantityOut, Num(0)).v
      qtyRet == Coalesce(item.quantityReturn, Num(0)).v
      itemRemaining == Max(qtyOut - qtyRet, 0)
      rawSold == IF IsRealNumber(item.quantitySold)
                   THEN item.quantitySold.v ELSE 0
      safeSold == Max(0, Min(rawSold, itemRemaining))
  IN safeSold

\* the values of one row of the items table
ItemRow(item) ==
  LET qtyOut == Coalesce(item.quantityOut, Num(0)).v
      qtyRet == Coalesce(item.quantityReturn, Num(0)).v
      itemRemaining == Max(qtyOut - qtyRet, 0)
      quantitySold == getSoldForItem(item)
      remaining == Max(itemRemaining - quantitySold, 0)
      price == PriceOf(item.book)
      expected == itemRemaining * price
      returnedAmt == Coalesce(item.amountReturned, Num(0)).v
      diff == returnedAmt - expected
  IN [qtyOut |-> qtyOut, qtyRet |-> qtyRet, itemRemaining |-> itemRemaining,
      quantitySold |-> quantitySold, remaining |-> remaining,
      price |-> price, expected |-> expected,
      returnedAmt |-> returnedAmt, diff |-> diff]

(* ------------------------------------------------------------------ *)
(* ActiveTripsPage: computeTripSummary                                  *)
(* ------------------------------------------------------------------ *)
\* the initial accumulator of the reduce
ZeroSummary ==
  [booksOut |-> 0, booksReturn |-> 0, booksSold |-> 0,
   expectedAmount |-> 0, amountReturned |-> 0, difference |-> 0]

\* a reducer in which the difference is overwritten instead of accumulated
TripStep_DifferenceAssigned(acc, item) ==
  LET qtyOut == Coalesce(item.quantityOut, Num(0)).v
      qtyRet == Coalesce(item.quantityReturn, Num(0)).v
      itemRemaining == Max(qtyOut - qtyRet, 0)
      quantitySold == getSoldForItem(item)
      price == PriceOf(item.book)
      expected == itemRemaining * price
      returnedAmt == Coalesce(item.amountReturned, Num(0)).v
      diff == returnedAmt - expected
  IN [booksOut |-> acc.booksOut + qtyOut,
      booksReturn |-> acc.booksReturn + qtyRet,
      booksSold |-> acc.booksSold + quantitySold,
      expectedAmount |-> acc.expectedAmount + expected,
      amountReturned |-> acc.amountReturned + returnedAmt,
      difference |-> diff]

\* the reducer callback of computeTripSummary
TripStep(acc, item) ==
  LET qtyOut == Coalesce(item.quantityOut, Num(0)).v
      qtyRet == Coalesce(item.quantityReturn, Num(0)).v
      itemRemaining == Max(qtyOut - qtyRet, 0)
      quantitySold == getSoldForItem(item)
      price == PriceOf(item.book)
      expected == itemRemaining * price
      returnedAmt == Coalesce(item.amountReturned, Num(0)).v
      diff == returnedAmt - expected
  IN [booksOut |-> acc.booksOut + qtyOut,
      booksReturn |-> acc.booksReturn + qtyRet,
      booksSold |-> acc.booksSold + quantitySold,
      expectedAmount |-> acc.expectedAmount + expected,
      amountReturned |-> acc.amountReturned + returnedAmt,
      difference |-> acc.difference + diff]

\* items.reduce(TripStep, acc), left to right
RECURSIVE ReduceItems(_, _)
ReduceItems(items, acc) ==
  IF items = <<>> THEN acc
  ELSE ReduceItems(Tail(items), TripStep(acc, Head(items)))

computeTripSummary(t) == ReduceItems(t.items, ZeroSummary)

(* ------------------------------------------------------------------ *)
(* ActiveTripsPage: dates, groups and the summaries of the page         *)
(* ------------------------------------------------------------------ *)
\* d.slice(0, 10) keeps the first ten characters
DateLen == 10

\* !d : undefined, null and the empty string are falsy
Falsy(x) == x.t \in {"undefined", "null"} \/ (x.t = "string" /\ x.s = <<>>)

\* normalizeDate; dates arrive as JSON strings or are missing
normalizeDate(d) ==
  CASE Falsy(d) -> <<>>
    [] d.t = "string" -> SubSeq(d.s, 1, Min(DateLen, Len(d.s)))

\* String.prototype.trim on a sequence of characters
Whitespace == {" "}
RECURSIVE TrimStart(_)
TrimStart(s) ==
  IF s # <<>> /\ Head(s) \in Whitespace THEN TrimStart(Tail(s)) ELSE s
RECURSIVE TrimEnd(_)
TrimEnd(s) ==
  IF s # <<>> /\ s[Len(s)] \in Whitespace
    THEN TrimEnd(SubSeq(s, 1, Len(s) - 1)) ELSE s
Trim(s) == TrimEnd(TrimStart(s))

\* array.filter(pred), keeping the order
RECURSIVE FilterDate(_, _)
FilterDate(ts, sel) ==
  IF ts = <<>> THEN <<>>
  ELSE IF normalizeDate(Head(ts).date) = normalizeDate(sel)
         THEN <<Head(ts)>> \o FilterDate(Tail(ts), sel)
         ELSE FilterDate(Tail(ts), sel)

\* x || "" for a string field
OrEmpty(x) == IF Falsy(x) THEN <<>> ELSE x.s

\* a key that takes the group name as stored, blanks included
groupKeyForTrip_Untrimmed(t) ==
  LET g == OrEmpty(t.groupName)
  IN IF Trim(g) = <<>> THEN [kind |-> "single", id |-> t._id]
     ELSE [kind |-> "group", name |-> g]

groupKeyForTrip(t) ==
  LET g == OrEmpty(t.groupName)
  IN IF Trim(g) = <<>> THEN [kind |-> "single", id |-> t._id]
     ELSE [kind |-> "group", name |-> Trim(g)]

\* the forEach of groupedTrips: the groups in order of first occurrence
RECURSIVE GroupInto(_, _)
GroupInto(ts, groups) ==
  IF ts = <<>> THEN groups
  ELSE LET t == Head(ts)
           key == groupKeyForTrip(t)
           gName == IF Trim(OrEmpty(t.groupName)) = <<>> THEN Null
                    ELSE Str(Trim(OrEmpty(t.groupName)))
           known == \E i \in 1..Len(groups) : groups[i].key = key
           withKey == IF known THEN groups
                      ELSE Append(groups, [key |-> key, groupName |-> gName,
                                           trips |-> <<>>])
           pushed == [i \in 1..Len(withKey) |->
                        IF withKey[i].key = key
                          THEN [withKey[i] EXCEPT !.trips = Append(@, t)]
                          ELSE withKey[i]]
       IN GroupInto(Tail(ts), pushed)

\* a reducer that overwrites the collected amount with that of the last trip
GroupStep_AmountAssigned(acc, t) ==
  LET sum == computeTripSummary(t)
  IN [booksOut |-> acc.booksOut + sum.booksOut,
      booksReturn |-> acc.booksReturn + sum.booksReturn,
      booksSold |-> acc.booksSold + sum.booksSold,
      expectedAmount |-> acc.expectedAmount + sum.expectedAmount,
      amountReturned |-> sum.amountReturned,
      difference |-> acc.difference + sum.difference]

\* the reducer callback of groupSummary
GroupStep(acc, t) ==
  LET sum == computeTripSummary(t)
  IN [booksOut |-> acc.booksOut + sum.booksOut,
      booksReturn |-> acc.booksReturn + sum.booksReturn,
      booksSold |-> acc.booksSold + sum.booksSold,
      expectedAmount |-> acc.expectedAmount + sum.expectedAmount,
      amountReturned |-> acc.amountReturned + sum.amountReturned,
      difference |-> acc.difference + sum.difference]

RECURSIVE ReduceGroup(_, _)
ReduceGroup(ts, acc) ==
  IF ts = <<>> THEN acc
  ELSE ReduceGroup(Tail(ts), GroupStep(acc, Head(ts)))

groupSummaryOf(group) == ReduceGroup(group.trips, ZeroSummary)

\* a reducer that takes the difference of the last trip as that of the page
PageStep_DifferenceOfLast(acc, t) ==
  LET sum == computeTripSummary(t)
  IN [trips |-> acc.trips + 1,
      booksOut |-> acc.booksOut + sum.booksOut,
      booksReturn |-> acc.booksReturn + sum.booksReturn,
      booksSold |-> acc.booksSold + sum.booksSold,
      expectedAmount |-> acc.expectedAmount + sum.expectedAmount,
      amountReturned |-> acc.amountReturned + sum.amountReturned,
      difference |-> sum.difference]

\* the reducer callback of pageSummary
PageStep(acc, t) ==
  LET sum == computeTripSummary(t)
  IN [trips |-> acc.trips + 1,
      booksOut |-> acc.booksOut + sum.booksOut,
      booksReturn |-> acc.booksReturn + sum.booksReturn,
      booksSold |-> acc.booksSold + sum.booksSold,
      expectedAmount |-> acc.expectedAmount + sum.expectedAmount,
      amountReturned |-> acc.amountReturned + sum.amountReturned,
      difference |-> acc.difference + sum.difference]

RECURSIVE ReducePage(_, _)
ReducePage(ts, acc) ==
  IF ts = <<>> THEN acc
  ELSE ReducePage(Tail(ts), PageStep(acc, Head(ts)))

pageSummaryOf(ts) ==
  ReducePage(ts, [trips |-> 0, booksOut |-> 0, booksReturn |-> 0,
                  booksSold |-> 0, expectedAmount |-> 0,
                  amountReturned |-> 0, difference |-> 0])

(* ------------------------------------------------------------------ *)
(* ReportsPage: overall, bookSummaries, distributorData                 *)
(* ------------------------------------------------------------------ *)
\* the loop body of overall over the items of one trip
RECURSIVE OverallItems(_, _)
OverallItems(items, acc) ==
  IF items = <<>> THEN acc
  ELSE LET m == getItemMetrics(Head(items), PriceOf(Head(items).book))
       IN OverallItems(Tail(items),
            [acc EXCEPT !.totalSold = @ + m.quantitySold,
                        !.totalCollected = @ + m.amountCollected])

RECURSIVE OverallTrips(_, _)
OverallTrips(ts, acc) ==
  IF ts = <<>> THEN acc
  ELSE LET t == Head(ts)
           cash == Coalesce(t.cashAmount, Num(0)).v
           online == Coalesce(t.onlineAmount, Num(0)).v
           withCash == [acc EXCEPT !.totalCash = @ + cash,
                                   !.totalOnline = @ + online]
       IN OverallTrips(Tail(ts), OverallItems(t.items, withCash))

overallOf(ts) ==
  OverallTrips(ts, [totalSold |-> 0, totalCollected |-> 0,
                    totalCash |-> 0, totalOnline |-> 0])

\* obj?.field for the fields the reports read; a string has none of them
OptField(x, f) == IF x.t = "object" THEN x[f] ELSE Undefined

\* x || d for a string field
OrString(x, d) == IF Falsy(x) THEN d ELSE x.s

\* the position of the entry with the given id in a sequence of summaries
IndexOfKey(sums, f, id) == CHOOSE i \in 1..Len(sums) : sums[i][f] = id
HasKey(sums, f, id) == \E i \in 1..Len(sums) : sums[i][f] = id

\* the names of the model and their order under localeCompare
NameA == <<"A">>
NameB == <<"B">>
UnknownBook ==
  <<"U", "n", "k", "n", "o", "w", "n", " ", "B", "o", "o", "k">>
UnknownDistributor ==
  <<"U", "n", "k", "n", "o", "w", "n", " ", "D", "i", "s", "t", "r", "i",
    "b", "u", "t", "o", "r">>
UnknownId == <<"u", "n", "k", "n", "o", "w", "n">>
NameRank(n) ==
  CASE n = NameA -> 1
    [] n = NameB -> 2
    [] n = UnknownBook -> 3
    [] n = UnknownDistributor -> 4

\* Array.prototype.sort by name: a stable insertion sort
RECURSIVE InsertByName(_, _, _)
InsertByName(sorted, x, f) ==
  IF sorted = <<>> THEN <<x>>
  ELSE IF NameRank(x[f]) < NameRank(Head(sorted)[f])
         THEN <<x>> \o sorted
         ELSE <<Head(sorted)>> \o InsertByName(Tail(sorted), x, f)

RECURSIVE SortByName(_, _)
SortByName(xs, f) ==
  IF xs = <<>> THEN <<>>
  ELSE InsertByName(SortByName(SubSeq(xs, 1, Len(xs) - 1), f),
                    xs[Len(xs)], f)

\* bookSummaries: the inner loop over the items of one trip
RECURSIVE BookItems(_, _)
BookItems(items, sums) ==
  IF items = <<>> THEN sums
  ELSE LET bookObj == Head(items).book
       IN IF Falsy(bookObj) \/ Falsy(OptField(bookObj, "_id"))
            THEN BookItems(Tail(items), sums)
            ELSE
              LET bookId == bookObj._id.s
                  productName == Coalesce(bookObj.productName,
                                          Str(UnknownBook)).s
                  price == Coalesce(bookObj.salePrice, Num(0)).v
                  m == getItemMetrics(Head(items), price)
                  withKey ==
                    IF HasKey(sums, "bookId", bookId) THEN sums
                    ELSE Append(sums,
                           [bookId |-> bookId, productName |-> productName,
                            totalOut |-> 0, totalReturned |-> 0,
                            totalSold |-> 0, expectedAmount |-> 0,
                            amountCollected |-> 0])
                  k == IndexOfKey(withKey, "bookId", bookId)
                  added ==
                    [withKey EXCEPT
                       ![k].totalOut = @ + m.quantityOut,
                       ![k].totalReturned = @ + m.quantityReturn,
                       ![k].totalSold = @ + m.quantitySold,
                       ![k].expectedAmount = @ + m.expectedAmount,
                       ![k].amountCollected = @ + m.amountCollected]
              IN BookItems(Tail(items), added)

RECURSIVE BookTrips(_, _)
BookTrips(ts, sums) ==
  IF ts = <<>> THEN sums
  ELSE BookTrips(Tail(ts), BookItems(Head(ts).items, sums))

bookSummariesOf(ts) == SortByName(BookTrips(ts, <<>>), "productName")

\* distributorData: the inner loop over the items of one trip, adding to
\* the summary at position k
RECURSIVE DistItems(_, _, _)
DistItems(items, sums, k) ==
  IF items = <<>> THEN sums
  ELSE LET bookObj == Head(items).book
       IN IF Falsy(bookObj)
            THEN DistItems(Tail(items), sums, k)
            ELSE
              LET price == Coalesce(OptField(bookObj, "salePrice"),
                                    Num(0)).v
                  m == getItemMetrics(Head(items), price)
                  added ==
                    [sums EXCEPT
                       ![k].booksSold = @ + m.quantitySold,
                       ![k].expectedAmount = @ + m.expectedAmount,
                       ![k].amountCollected = @ + m.amountCollected]
              IN DistItems(Tail(items), added, k)

RECURSIVE DistTrips(_, _)
DistTrips(ts, sums) ==
  IF ts = <<>> THEN sums
  ELSE LET t == Head(ts)
           distObj == t.distributor
           distributorId == OrString(OptField(distObj, "_id"), UnknownId)
           distributorName ==
             OrString(OptField(distObj, "name"), UnknownDistributor)
           withKey ==
             IF HasKey(sums, "distributorId", distributorId) THEN sums
             ELSE Append(sums,
                    [distributorId |-> distributorId,
                     distributorName |-> distributorName,
                     tripsCount |-> 0, booksSold |-> 0,
                     expectedAmount |-> 0, amountCollected |-> 0,
                     cashAmount |-> 0, onlineAmount |-> 0,
                     difference |-> 0])
           k == IndexOfKey(withKey, "distributorId", distributorId)
           cash == Coalesce(t.cashAmount, Num(0)).v
           online == Coalesce(t.onlineAmount, Num(0)).v
           counted ==
             [withKey EXCEPT ![k].tripsCount = @ + 1,
                             ![k].cashAmount = @ + cash,
                             ![k].onlineAmount = @ + online]
       IN DistTrips(Tail(ts), DistItems(t.items, counted, k))

\* distributorData: the rows pushed for the items of one trip
RECURSIVE DistRowItems(_, _, _)
DistRowItems(items, rows, t) ==
  IF items = <<>> THEN rows
  ELSE LET bookObj == Head(items).book
       IN IF Falsy(bookObj)
            THEN DistRowItems(Tail(items), rows, t)
            ELSE
              LET price == Coalesce(OptField(bookObj, "salePrice"),
                                    Num(0)).v
                  m == getItemMetrics(Head(items), price)
                  pushed ==
                    Append(rows,
                      [tripId |-> OrEmpty(t._id),
                       date |-> Str(normalizeDate(t.date)),
                       productName |->
                         Coalesce(OptField(bookObj, "productName"),
                                  Str(UnknownBook)).s,
                       totalOut |-> m.quantityOut,
                       totalReturned |-> m.quantityReturn,
                       totalSold |-> m.quantitySold,
                       expectedAmount |-> m.expectedAmount,
                       amountCollected |-> m.amountCollected,
                       cashAmount |-> Coalesce(t.cashAmount, Num(0)).v,
                       onlineAmount |-> Coalesce(t.onlineAmount, Num(0)).v])
              IN DistRowItems(Tail(items), pushed, t)

\* distributorData: the rows of the trips of one distributor
RECURSIVE DistRowTrips(_, _, _)
DistRowTrips(ts, rows, distributorId) ==
  IF ts = <<>> THEN rows
  ELSE LET t == Head(ts)
           id == OrString(OptField(t.distributor, "_id"), UnknownId)
       IN DistRowTrips(Tail(ts),
                       IF id = distributorId
                         THEN DistRowItems(t.items, rows, t) ELSE rows,
                       distributorId)

\* summaries that take the cash and online amounts from the drill-down
\* rows, which repeat them on every item of a trip
distributorSummariesOf_AmountsFromRows(ts) ==
  LET raw == DistTrips(ts, <<>>)
      withDiff ==
        [i \in 1..Len(raw) |->
           LET rows == DistRowTrips(ts, <<>>, raw[i].distributorId)
           IN [raw[i] EXCEPT
                 !.difference = raw[i].amountCollected - raw[i].expectedAmount,
                 !.cashAmount =
                   SumSeq([j \in 1..Len(rows) |-> rows[j].cashAmount]),
                 !.onlineAmount =
                   SumSeq([j \in 1..Len(rows) |-> rows[j].onlineAmount])]]
  IN SortByName(withDiff, "distributorName")

distributorSummariesOf(ts) ==
  LET raw == DistTrips(ts, <<>>)
      withDiff ==
        [i \in 1..Len(raw) |->
           [raw[i] EXCEPT
              !.difference = raw[i].amountCollected - raw[i].expectedAmount]]
  IN SortByName(withDiff, "distributorName")

(* ------------------------------------------------------------------ *)
(* Dashboard: dailyAggs                                                 *)
(* ------------------------------------------------------------------ *)
\* JavaScript arithmetic on values that may be undefined or NaN
ToNumber(x) ==
  CASE x.t = "number" -> x
    [] x.t = "null" -> Num(0)
    [] x.t \in {"undefined", "NaN"} -> NaN
JsSub(a, b) ==
  IF ToNumber(a) = NaN \/ ToNumber(b) = NaN THEN NaN
  ELSE Num(ToNumber(a).v - ToNumber(b).v)
JsAdd(a, b) ==
  IF ToNumber(a) = NaN \/ ToNumber(b) = NaN THEN NaN
  ELSE Num(ToNumber(a).v + ToNumber(b).v)
JsMul(a, b) ==
  IF ToNumber(a) = NaN \/ ToNumber(b) = NaN THEN NaN
  ELSE Num(ToNumber(a).v * ToNumber(b).v)
JsMax(a, b) ==
  IF ToNumber(a) = NaN \/ ToNumber(b) = NaN THEN NaN
  ELSE Num(Max(ToNumber(a).v, ToNumber(b).v))

\* x || 0 for a numeric field: undefined, null, NaN and 0 are falsy
OrZero(x) ==
  IF x.t \in {"undefined", "null", "NaN"} \/ (x.t = "number" /\ x.v = 0)
    THEN Num(0) ELSE x

\* UTF-16 code units of the characters of a date string
CharCode(c) ==
  CASE c = "-" -> 45
    [] c = "0" -> 48 [] c = "1" -> 49 [] c = "2" -> 50 [] c = "3" -> 51
    [] c = "4" -> 52 [] c = "5" -> 53 [] c = "6" -> 54 [] c = "7" -> 55
    [] c = "8" -> 56 [] c = "9" -> 57
    [] c = ":" -> 58
    [] c = "T" -> 84
    [] c = "Z" -> 90

\* a < b on strings
RECURSIVE StrLess(_, _)
StrLess(a, b) ==
  IF b = <<>> THEN FALSE
  ELSE IF a = <<>> THEN TRUE
  ELSE IF CharCode(Head(a)) # CharCode(Head(b))
         THEN CharCode(Head(a)) < CharCode(Head(b))
         ELSE StrLess(Tail(a), Tail(b))

\* how many days the dashboard keeps: .slice(0, 7)
DaysShown == 7

Unknown == <<"U", "n", "k", "n", "o", "w", "n">>

\* typeof item.book === "object" && item.book
IsBookObject(b) == b.t = "object"

\* the loop over the items of one trip, adding to the day at position k
RECURSIVE DayItems(_, _, _)
DayItems(items, days, k) ==
  IF items = <<>> THEN days
  ELSE
    LET it == Head(items)
        sold == JsMax(JsSub(it.quantityOut, OrZero(it.quantityReturn)),
                      Num(0))
        price == IF IsBookObject(it.book) THEN OrZero(it.book.salePrice)
                 ELSE Num(0)
        expected == JsMul(sold, price)
        collected == OrZero(it.amountReturned)
        bookName == IF IsBookObject(it.book) THEN it.book.productName
                    ELSE Str(Unknown)
        agg == days[k]
        found == \E d \in 1..Len(agg.details) :
                   agg.details[d].bookName = bookName
        details ==
          IF found
            THEN LET d == CHOOSE d \in 1..Len(agg.details) :
                            /\ agg.details[d].bookName = bookName
                            /\ \A e \in 1..(d - 1) :
                                 agg.details[e].bookName # bookName
                 IN [agg.details EXCEPT
                       ![d].sold = JsAdd(@, sold),
                       ![d].expectedAmount = JsAdd(@, expected),
                       ![d].amountCollected = JsAdd(@, collected)]
            ELSE Append(agg.details,
                        [bookName |-> bookName, sold |-> sold,
                         expectedAmount |-> expected,
                         amountCollected |-> collected])
        added ==
          [days EXCEPT
             ![k] = [date |-> agg.date,
                     booksSold |-> JsAdd(agg.booksSold, sold),
                     expectedAmount |-> JsAdd(agg.expectedAmount, expected),
                     amountCollected |->
                       JsAdd(agg.amountCollected, collected),
                     details |-> details]]
    IN DayItems(Tail(items), added, k)

\* the loop over the trips: byDate in order of insertion, keyed by trip.date
RECURSIVE DayTrips(_, _)
DayTrips(ts, days) ==
  IF ts = <<>> THEN days
  ELSE LET date == Head(ts).date
           known == \E i \in 1..Len(days) : days[i].date = date
           withKey ==
             IF known THEN days
             ELSE Append(days,
                    [date |-> date, booksSold |-> Num(0),
                     expectedAmount |-> Num(0), amountCollected |-> Num(0),
                     details |-> <<>>])
           k == CHOOSE i \in 1..Len(withKey) : withKey[i].date = date
       IN DayTrips(Tail(ts), DayItems(Head(ts).items, withKey, k))

\* .sort((a, b) => (a.date < b.date ? 1 : -1)) on days of distinct dates
RECURSIVE InsertByDateDesc(_, _)
InsertByDateDesc(sorted, x) ==
  IF sorted = <<>> THEN <<x>>
  ELSE IF StrLess(Head(sorted).date.s, x.date.s)
         THEN <<x>> \o sorted
         ELSE <<Head(sorted)>> \o InsertByDateDesc(Tail(sorted), x)

RECURSIVE SortByDateDesc(_)
SortByDateDesc(xs) ==
  IF xs = <<>> THEN <<>>
  ELSE InsertByDateDesc(SortByDateDesc(SubSeq(xs, 1, Len(xs) - 1)),
                        xs[Len(xs)])

\* an aggregator that keeps the end of the sorted days: .slice(-7)
dailyAggsOf_KeepsLast(ts) ==
  LET sorted == SortByDateDesc(DayTrips(ts, <<>>))
  IN SubSeq(sorted, Max(1, Len(sorted) - DaysShown + 1), Len(sorted))

dailyAggsOf(ts) ==
  LET sorted == SortByDateDesc(DayTrips(ts, <<>>))
  IN SubSeq(sorted, 1, Min(DaysShown, Len(sorted)))

(* ------------------------------------------------------------------ *)
(* ActiveTripsPage: the edit handlers                                   *)
(* ------------------------------------------------------------------ *)
\* the value of one decimal digit, -1 for any other character
DigitValue(c) ==
  CASE c = "0" -> 0 [] c = "1" -> 1 [] c = "2" -> 2 [] c = "3" -> 3
    [] c = "4" -> 4 [] c = "5" -> 5 [] c = "6" -> 6 [] c = "7" -> 7
    [] c = "8" -> 8 [] c = "9" -> 9
    [] OTHER -> 0 - 1

RECURSIVE DigitsValue(_, _)
DigitsValue(s, acc) ==
  IF s = <<>> THEN acc
  ELSE DigitsValue(Tail(s), 10 * acc + DigitValue(Head(s)))

IsDigits(s) == s # <<>> /\ \A i \in 1..Len(s) : DigitValue(s[i]) >= 0

\* Number(rawValue) on the text of an input: the empty text is 0, an
\* optional minus sign and decimal digits give an integer, all else is NaN
JsNumber(rawValue) ==
  CASE rawValue = <<>> -> Num(0)
    [] IsDigits(rawValue) -> Num(DigitsValue(rawValue, 0))
    [] Head(rawValue) = "-" /\ IsDigits(Tail(rawValue)) ->
         Num(0 - DigitsValue(Tail(rawValue), 0))
    [] OTHER -> NaN

\* { ...object, [field]: value }
SpreadWith(object, field, value) ==
  [f \in (DOMAIN object) \cup {field} |->
     IF f = field THEN value ELSE object[f]]

\* the item at itemIndex (counted from 1) of the trip tripId
ItemAt(prev, tripId, itemIndex) ==
  prev[CHOOSE i \in 1..Len(prev) : prev[i]._id = tripId].items[itemIndex]

\* prev.map over the trips, then over the items of the trip tripId:
\* the item at itemIndex becomes the changed item
MapItem(prev, tripId, itemIndex, changed) ==
  [i \in 1..Len(prev) |->
     IF prev[i]._id # tripId THEN prev[i]
     ELSE SpreadWith(prev[i], "items",
            [idx \in 1..Len(prev[i].items) |->
               IF idx = itemIndex THEN changed ELSE prev[i].items[idx]])]

handleItemChange(prev, tripId, itemIndex, field, value) ==
  LET it == ItemAt(prev, tripId, itemIndex)
  IN MapItem(prev, tripId, itemIndex, SpreadWith(it, field, value))

handleItemSoldChange(prev, tripId, itemIndex, rawValue) ==
  LET it == ItemAt(prev, tripId, itemIndex)
      changed ==
        LET qtyOut == Coalesce(it.quantityOut, Num(0)).v
            qtyRet == Coalesce(it.quantityReturn, Num(0)).v
            itemRemaining == Max(qtyOut - qtyRet, 0)
            parsed == IF JsNumber(rawValue) = NaN THEN 0
                      ELSE JsNumber(rawValue).v
            safeSold == Max(0, Min(parsed, itemRemaining))
        IN IF rawValue = <<>> THEN SpreadWith(it, "quantitySold", Num(0))
           ELSE SpreadWith(it, "quantitySold", Num(safeSold))
  IN MapItem(prev, tripId, itemIndex, changed)

\* a Qty Out handler that stores the new quantityOut and leaves the stored
\* quantitySold as it is
handleQtyOutChange_NoReclamp(prev, tripId, itemIndex, rawValue) ==
  LET it == ItemAt(prev, tripId, itemIndex)
      changed ==
        LET parsed == JsNumber(rawValue)
            newQtyOut == IF rawValue = <<>> THEN 0
                         ELSE IF parsed = NaN THEN 0 ELSE Max(0, parsed.v)
        IN SpreadWith(it, "quantityOut", Num(newQtyOut))
  IN MapItem(prev, tripId, itemIndex, changed)

\* a Qty Out handler that ignores the empty text
handleQtyOutChange_EmptyKeeps(prev, tripId, itemIndex, rawValue) ==
  LET it == ItemAt(prev, tripId, itemIndex)
      changed ==
        LET parsed == JsNumber(rawValue)
            newQtyOut == IF rawValue = <<>>
                           THEN Coalesce(it.quantityOut, Num(0)).v
                         ELSE IF parsed = NaN THEN 0 ELSE Max(0, parsed.v)
            qtyRet == Coalesce(it.quantityReturn, Num(0)).v
            itemRemaining == Max(newQtyOut - qtyRet, 0)
            currentSold == IF IsRealNumber(it.quantitySold)
                             THEN it.quantitySold.v ELSE 0
            safeSold == Max(0, Min(currentSold, itemRemaining))
        IN SpreadWith(SpreadWith(it, "quantityOut", Num(newQtyOut)),
                      "quantitySold", Num(safeSold))
  IN MapItem(prev, tripId, itemIndex, changed)

handleQtyOutChange(prev, tripId, itemIndex, rawValue) ==
  LET it == ItemAt(prev, tripId, itemIndex)
      changed ==
        LET parsed == JsNumber(rawValue)
            newQtyOut == IF rawValue = <<>> THEN 0
                         ELSE IF parsed = NaN THEN 0 ELSE Max(0, parsed.v)
            qtyRet == Coalesce(it.quantityReturn, Num(0)).v
            itemRemaining == Max(newQtyOut - qtyRet, 0)
            currentSold == IF IsRealNumber(it.quantitySold)
                             THEN it.quantitySold.v ELSE 0
            safeSold == Max(0, Min(currentSold, itemRemaining))
        IN SpreadWith(SpreadWith(it, "quantityOut", Num(newQtyOut)),
                      "quantitySold", Num(safeSold))
  IN MapItem(prev, tripId, itemIndex, changed)

\* a Cash / Online handler that books the entered amount on the first item
\* as well
handleCashOrOnlineChange_AlsoItem(prev, tripId, field, rawValue) ==
  LET parsed == JsNumber(rawValue)
      val == IF rawValue = <<>> THEN 0
             ELSE IF parsed = NaN THEN 0 ELSE Max(0, parsed.v)
  IN [i \in 1..Len(prev) |->
        IF prev[i]._id # tripId THEN prev[i]
        ELSE SpreadWith(
               SpreadWith(prev[i], "items",
                 [idx \in 1..Len(prev[i].items) |->
                    IF idx = 1
                      THEN SpreadWith(prev[i].items[idx], "amountReturned",
                                      Num(val))
                      ELSE prev[i].items[idx]]),
               field, Num(val))]

handleCashOrOnlineChange(prev, tripId, field, rawValue) ==
  LET parsed == JsNumber(rawValue)
      val == IF rawValue = <<>> THEN 0
             ELSE IF parsed = NaN THEN 0 ELSE Max(0, parsed.v)
  IN [i \in 1..Len(prev) |->
        IF prev[i]._id # tripId THEN prev[i]
        ELSE SpreadWith(prev[i], field, Num(val))]

\* onChange of the Qty Return and the Amount Returned input:
\* e.target.value === "" ? 0 : Number(e.target.value)
InputNumber(rawValue) ==
  IF rawValue = <<>> THEN Num(0) ELSE JsNumber(rawValue)

\* the trip row of the expanded trip: cash, online, the returned total of
\* the summary and the difference that the row shows when it is not zero
TripRow(t) ==
  LET sum == computeTripSummary(t)
      cash == Coalesce(t.cashAmount, Num(0)).v
      online == Coalesce(t.onlineAmount, Num(0)).v
      totalReturned == sum.amountReturned
      cashOnlineTotal == cash + online
      diffFromReturned == cashOnlineTotal - totalReturned
  IN [cash |-> cash, online |-> online, totalReturned |-> totalReturned,
      cashOnlineTotal |-> cashOnlineTotal,
      diffFromReturned |-> diffFromReturned,
      mismatchShown |-> diffFromReturned # 0]

(* ------------------------------------------------------------------ *)
(* ReportsPage: the drill-down rows of a distributor                    *)
(* ------------------------------------------------------------------ *)
\* distributorData.rowsByDistId[distributorId] || [], after
\* rows.sort((a, b) => (a.date < b.date ? 1 : -1)); rows of one date keep
\* no particular order
rowsByDistIdOf(ts, distributorId) ==
  SortByDateDesc(DistRowTrips(ts, <<>>, distributorId))

\* filteredRows: selectedDate.trim().length > 0
\*   ? allRows.filter((r) => r.date === normalizeDate(selectedDate))
\*   : allRows
filteredRowsOf(rows, date) ==
  IF Len(Trim(date.s)) > 0
    THEN LET OfDate(r) == r.date.s = normalizeDate(date)
         IN SelectSeq(rows, OfDate)
    ELSE rows

(* ------------------------------------------------------------------ *)
(* ActiveTripsPage: the request of a save                               *)
(* ------------------------------------------------------------------ *)
\* object.field of an object that may lack the field
Prop(object, field) ==
  IF field \in DOMAIN object THEN object[field] ELSE Undefined

\* typeof item.book === "string" ? item.book : item.book?._id || item.book
payloadBookId(book) ==
  IF book.t = "string" THEN book
  ELSE IF Falsy(OptField(book, "_id")) THEN book
  ELSE book._id

\* one entry of payloadItems in handleSaveTripReturns
payloadItem(it) ==
  [bookId |-> payloadBookId(Prop(it, "book")),
   quantityOut |-> Coalesce(Prop(it, "quantityOut"), Num(0)),
   quantityReturn |-> Coalesce(Prop(it, "quantityReturn"), Num(0)),
   quantitySold |-> Coalesce(Prop(it, "quantitySold"), Num(0)),
   amountReturned |-> Coalesce(Prop(it, "amountReturned"), Num(0)),
   differenceReason |-> Coalesce(Prop(it, "differenceReason"), Str(<<>>))]

\* the second argument that handleSaveTripReturns passes to
\* updateTripReturns
saveArgument(t) ==
  [items |-> [j \in 1..Len(t.items) |-> payloadItem(t.items[j])],
   cashAmount |-> Coalesce(Prop(t, "cashAmount"), Num(0)),
   onlineAmount |-> Coalesce(Prop(t, "onlineAmount"), Num(0))]

\* updateTripReturns(tripId, items):
\* api.patch(`/trips/${tripId}/returns`, { items })
updateTripReturns(tripId, items) ==
  [method |-> "patch",
   url |-> [prefix |-> "/trips/", tripId |-> tripId, suffix |-> "/returns"],
   data |-> [items |-> items]]

\* deleteTrip(tripId): api.delete(`/trips/${tripId}`)
deleteTrip(tripId) ==
  [method |-> "delete",
   url |-> [prefix |-> "/trips/", tripId |-> tripId, suffix |-> ""]]

(* ------------------------------------------------------------------ *)
(* State                                                                *)
(* ------------------------------------------------------------------ *)
VARIABLES
  item, metrics, row,   \* SpecItem: one item record and what is derived
  trip, summary,        \* SpecTrip: one trip and its summary
  \* ActiveTripsPage (Spec)
  trips,            \* useState<Trip[]>
  selectedDate,     \* useState<string>
  expandedTripId,   \* useState<string | null>
  loading,          \* useState(false)
  error,            \* useState<string | null>
  mounted,          \* the mount effect has run
  loadsInFlight,    \* getTrips requests not yet answered
  \* ReportsPage (SpecReports)
  reportTrips,      \* useState<Trip[]>
  reportLoading,    \* useState(false)
  reportError,      \* useState<string | null>
  reportMounted,    \* the mount effect has run
  reportPending,    \* the getTrips request is not yet answered
  reportSelectedDate,   \* useState<string>("")
  \* Dashboard (SpecDash)
  dashTrips,        \* useState<Trip[]>
  dashLoading,      \* useState(false)
  dashError,        \* useState<string | null>
  dashMounted,      \* the mount effect has run
  dashPending,      \* the requests of load are not yet answered
  \* ActiveTripsPage, saving (SpecEdit, SpecSave)
  savingTripId,     \* useState<string | null>
  saves,            \* the calls of handleSaveTripReturns that await
  lastHandler,      \* the handler that ran last, with its arguments
  \* the API client (SpecAuth)
  authToken,        \* let authToken: string | null
  authHeader,       \* api.defaults.headers.common["Authorization"]
  storedToken,      \* localStorage item "authToken"
  pathname,         \* window.location.pathname
  requests,         \* requests sent through api and not yet answered
  lastResponse,     \* what the caller of the last answered request got
  \* ActiveTripsPage, deleting (SpecDelete)
  deletingTripId,   \* useState<string | null>
  backend,          \* the trips that the backend holds
  \* TripsPage (SpecForm)
  tripForm,         \* useState<TripForm>
  itemIdCounter,    \* let itemIdCounter = 1
  saving,           \* useState(false)
  tripError,        \* useState<string | null>
  creates,          \* the create requests not yet answered
  lastSubmit        \* what handleSubmit did last

itemVars == <<item, metrics, row>>
tripVars == <<trip, summary>>
pageVars == <<trips, selectedDate, expandedTripId, loading, error, mounted,
              loadsInFlight>>
reportVars == <<reportTrips, reportLoading, reportError, reportMounted,
                reportPending, reportSelectedDate>>
dashVars == <<dashTrips, dashLoading, dashError, dashMounted, dashPending>>
saveVars == <<savingTripId, saves, lastHandler>>
authVars == <<authToken, authHeader, storedToken, pathname, requests,
              lastResponse>>
deleteVars == <<deletingTripId, backend>>
formVars == <<tripForm, itemIdCounter, saving, tripError, creates,
              lastSubmit>>
vars == <<itemVars, tripVars, pageVars, reportVars, dashVars, saveVars,
          authVars, deleteVars, formVars>>

\* the parts of the state a specification does not use stay idle
IdleItem == item = None /\ metrics = None /\ row = None
IdleTrip == trip = None /\ summary = None
IdlePage ==
  /\ trips = <<>>
  /\ selectedDate = None
  /\ expandedTripId = None
  /\ loading = FALSE
  /\ error = None
  /\ mounted = FALSE
  /\ loadsInFlight = 0
IdleReports ==
  /\ reportTrips = <<>>
  /\ reportLoading = FALSE
  /\ reportError = None
  /\ reportMounted = FALSE
  /\ reportPending = FALSE
  /\ reportSelectedDate = None
IdleDash ==
  /\ dashTrips = <<>>
  /\ dashLoading = FALSE
  /\ dashError = None
  /\ dashMounted = FALSE
  /\ dashPending = FALSE
IdleSave ==
  /\ savingTripId = None
  /\ saves = <<>>
  /\ lastHandler = None
IdleAuth ==
  /\ authToken = None
  /\ authHeader = None
  /\ storedToken = None
  /\ pathname = None
  /\ requests = <<>>
  /\ lastResponse = None
IdleDelete ==
  /\ deletingTripId = Null
  /\ backend = None
IdleForm ==
  /\ tripForm = None
  /\ itemIdCounter = 0
  /\ saving = FALSE
  /\ tripError = None
  /\ creates = <<>>
  /\ lastSubmit = None

(* ------------------------------------------------------------------ *)
(* Item records as the backend may deliver them                         *)
(* ------------------------------------------------------------------ *)
Books ==
  {Undefined, Null, BookId(<<"b", "1">>),
   BookObj(Str(<<"b", "1">>), Str(<<"A">>), Undefined)}
    \cup {BookObj(Str(<<"b", "1">>), Str(<<"A">>), Num(p)) :
            p \in 1..MaxPrice}

MkItem(b, o, r, s, a) ==
  [book |-> b, quantityOut |-> o, quantityReturn |-> r,
   quantitySold |-> s, amountReturned |-> a]

\* the items of scenarios A and B of the specification
ScenarioA ==
  MkItem(BookObj(Str(<<"b", "1">>), Str(<<"A">>), Num(20)),
         Num(10), Num(3), Undefined, Undefined)
ScenarioB ==
  MkItem(BookObj(Str(<<"b", "1">>), Str(<<"A">>), Num(20)),
         Num(10), Num(3), Num(4), Num(100))

OptQty == {Undefined} \cup {Num(n) : n \in 0..MaxQty}
OptSold == {Undefined, NaN} \cup {Num(n) : n \in (0 - 1)..(MaxQty + 1)}
OptAmt == {Undefined} \cup {Num(n) : n \in 0..MaxAmt}

Items ==
  {MkItem(b, o, r, s, a) :
     b \in Books, o \in OptQty, r \in OptQty, s \in OptSold, a \in OptAmt}
    \cup {ScenarioA, ScenarioB}

(* ------------------------------------------------------------------ *)
(* SpecItem: the item-level derivations applied to one item record      *)
(* ------------------------------------------------------------------ *)
InitItem ==
  /\ item \in Items
  /\ metrics = None
  /\ row = None
  /\ IdleTrip
  /\ IdlePage
  /\ IdleReports
  /\ IdleDash
  /\ IdleSave
  /\ IdleAuth
  /\ IdleDelete
  /\ IdleForm

\* ReportsPage, overall: price = bookObj?.salePrice ?? 0, then getItemMetrics
ReportItem ==
  /\ metrics = None
  /\ metrics' = getItemMetrics(item, PriceOf(item.book))
  /\ UNCHANGED <<item, row, tripVars, pageVars, reportVars, dashVars,
                 saveVars, authVars, deleteVars, formVars>>

\* ActiveTripsPage renders the row of the item
RenderItemRow ==
  /\ row = None
  /\ row' = ItemRow(item)
  /\ UNCHANGED <<item, metrics, tripVars, pageVars, reportVars, dashVars,
                 saveVars, authVars, deleteVars, formVars>>

NextItem == ReportItem \/ RenderItemRow

SpecItem == InitItem /\ [][NextItem]_vars

(* ------------------------------------------------------------------ *)
(* Item-level properties (checked under SpecItem)                       *)
(* ------------------------------------------------------------------ *)
\* what the specification calls itemRemaining, quantityOut/quantityReturn
\* read as 0 when missing
StatedOut(it) == IF it.quantityOut.t = "number" THEN it.quantityOut.v ELSE 0
StatedRet(it) == IF it.quantityReturn.t = "number" THEN it.quantityReturn.v ELSE 0
StatedRemaining(it) ==
  IF StatedOut(it) >= StatedRet(it) THEN StatedOut(it) - StatedRet(it) ELSE 0
StatedCollected(it) ==
  IF it.amountReturned.t = "number" THEN it.amountReturned.v ELSE 0
\* the unit price: the sale price of a resolved book, 0 for an unresolved one
StatedPrice(b) ==
  IF b.t = "object" /\ b.salePrice.t = "number" THEN b.salePrice.v ELSE 0
BookUnresolved(b) == b.t \in {"undefined", "null", "string"}

\* C1: for every stored quantitySold (numeric, missing, NaN, negative or
\* larger than what remains) the effective sold quantity of getItemMetrics
\* and of getSoldForItem lies in [0, itemRemaining].
C1_SoldWithinRemaining ==
  /\ metrics # None =>
       /\ metrics.quantitySold >= 0
       /\ metrics.quantitySold <= StatedRemaining(item)
  /\ row # None =>
       /\ row.quantitySold >= 0
       /\ row.quantitySold <= StatedRemaining(item)

\* both derivations ran on an item whose stored sold exceeds what remains
C1_Witness ==
  /\ metrics # None
  /\ row # None
  /\ item.quantitySold.t = "number"
  /\ item.quantitySold.v > StatedRemaining(item)

\* C2: for non-negative integers out and ret, itemRemaining is out - ret
\* when out >= ret and 0 when ret > out; it is never negative.
C2_ItemRemaining ==
  (item.quantityOut.t = "number" /\ item.quantityReturn.t = "number") =>
    LET out == item.quantityOut.v
        ret == item.quantityReturn.v
    IN /\ metrics # None =>
            /\ out >= ret => metrics.itemRemaining = out - ret
            /\ ret > out => metrics.itemRemaining = 0
            /\ metrics.itemRemaining >= 0
       /\ row # None =>
            /\ out >= ret => row.itemRemaining = out - ret
            /\ ret > out => row.itemRemaining = 0
            /\ row.itemRemaining >= 0

\* more was returned than went out, and both derivations ran
C2_Witness ==
  /\ metrics # None
  /\ row # None
  /\ item.quantityOut.t = "number"
  /\ item.quantityReturn.t = "number"
  /\ item.quantityReturn.v > item.quantityOut.v

\* C3: when the item carries no numeric quantitySold (missing or NaN),
\* getItemMetrics returns quantitySold = itemRemaining; scenario A
\* (out 10, return 3, price 20) gives remaining 7, sold 7, expected 140.
C3_FallbackToRemaining ==
  metrics # None =>
    /\ item.quantitySold \in {Undefined, NaN} =>
         metrics.quantitySold = StatedRemaining(item)
    /\ item = ScenarioA =>
         /\ metrics.itemRemaining = 7
         /\ metrics.quantitySold = 7
         /\ metrics.expectedAmount = 140

\* scenario A has been derived
C3_Witness ==
  /\ item = ScenarioA
  /\ metrics # None
  /\ metrics.quantitySold = 7

\* C5: expectedAmount is itemRemaining times the unit price, whatever the
\* sold quantity, and the price is 0 when the book is unresolved (null,
\* missing or a bare id): the derivation yields the value 0 there.
C5_ExpectedAmount ==
  /\ metrics # None =>
       /\ metrics.expectedAmount = StatedRemaining(item) * StatedPrice(item.book)
       /\ BookUnresolved(item.book) => metrics.expectedAmount = 0
  /\ row # None =>
       /\ row.expected = StatedRemaining(item) * StatedPrice(item.book)
       /\ BookUnresolved(item.book) =>
            (row.price = 0 /\ row.expected = 0)
       \* the same line as the only item of a trip summary
       /\ TripStep(ZeroSummary, item).expectedAmount =
            StatedRemaining(item) * StatedPrice(item.book)

\* an item with a priced book of which fewer were sold than remain
C5_Witness ==
  /\ metrics # None
  /\ row # None
  /\ StatedPrice(item.book) > 0
  /\ item.quantitySold.t = "number"
  /\ item.quantitySold.v >= 0
  /\ item.quantitySold.v < StatedRemaining(item)

\* C6: with an explicit quantitySold, remainingUnsold is
\* max(itemRemaining - quantitySold, 0), difference is amountReturned -
\* expectedAmount, and quantitySold + remainingUnsold = itemRemaining;
\* scenario B gives remaining 7, sold 4, unsold 3, expected 140, diff -40.
C6_RemainingAndDifference ==
  IsRealNumber(item.quantitySold) =>
    /\ metrics # None =>
         /\ metrics.remaining =
              Max(StatedRemaining(item) - metrics.quantitySold, 0)
         /\ metrics.quantitySold + metrics.remaining = StatedRemaining(item)
         /\ metrics.difference =
              StatedCollected(item) - metrics.expectedAmount
         /\ item = ScenarioB =>
              /\ metrics.itemRemaining = 7
              /\ metrics.quantitySold = 4
              /\ metrics.remaining = 3
              /\ metrics.expectedAmount = 140
              /\ metrics.difference = 0 - 40
    /\ row # None =>
         /\ row.remaining = Max(StatedRemaining(item) - row.quantitySold, 0)
         /\ row.quantitySold + row.remaining = StatedRemaining(item)
         /\ row.diff = StatedCollected(item) - row.expected
         /\ item = ScenarioB =>
              /\ row.itemRemaining = 7
              /\ row.quantitySold = 4
              /\ row.remaining = 3
              /\ row.expected = 140
              /\ row.diff = 0 - 40

\* scenario B has been derived by both pages
C6_Witness ==
  /\ item = ScenarioB
  /\ metrics # None
  /\ row # None
  /\ metrics.remaining = 3

(* ------------------------------------------------------------------ *)
(* SpecTrip: computeTripSummary applied to one trip                     *)
(* ------------------------------------------------------------------ *)
TripBooks ==
  {BookObj(Str(<<"b", "1">>), Str(<<"A">>), Num(MaxPrice)),
   BookId(<<"b", "2">>)}

TripItems ==
  {MkItem(b, o, r, s, a) :
     b \in TripBooks,
     o \in {Num(1), Num(MaxQty)},
     r \in {Undefined, Num(1)},
     s \in {Undefined, Num(1)},
     a \in {Undefined, Num(MaxAmt)}}

\* all sequences over S of length at most n
SeqsUpTo(S, n) == UNION {[1..k -> S] : k \in 0..n}

MkTrip(id, date, group, dist, items, cash, online) ==
  [_id |-> id, date |-> date, groupName |-> group, distributor |-> dist,
   items |-> items, cashAmount |-> cash, onlineAmount |-> online]

InitTrip ==
  /\ trip \in {MkTrip(Str(<<"t", "1">>), Undefined, Undefined, Undefined, its,
                      Undefined, Undefined) :
                 its \in SeqsUpTo(TripItems, MaxItems)}
  /\ summary = None
  /\ IdleItem
  /\ IdlePage
  /\ IdleReports
  /\ IdleDash
  /\ IdleSave
  /\ IdleAuth
  /\ IdleDelete
  /\ IdleForm

\* the page renders the summary of the trip
SummariseTrip ==
  /\ summary = None
  /\ summary' = computeTripSummary(trip)
  /\ UNCHANGED <<trip, itemVars, pageVars, reportVars, dashVars,
                 saveVars, authVars, deleteVars, formVars>>

NextTrip == SummariseTrip

SpecTrip == InitTrip /\ [][NextTrip]_vars

(* ------------------------------------------------------------------ *)
(* Trip-level properties (checked under SpecTrip)                       *)
(* ------------------------------------------------------------------ *)
\* the items of a trip rearranged by the permutation p of their indices
Rearranged(t, p) ==
  [t EXCEPT !.items = [i \in 1..Len(t.items) |-> t.items[p[i]]]]

IndexPermutations(n) ==
  {p \in [1..n -> 1..n] : \A i, j \in 1..n : p[i] = p[j] => i = j}

\* C4: the booksSold of the trip summary equals the sum over the items of
\* the effective quantitySold of the Item Metric Deriver (getItemMetrics),
\* items without a stored quantitySold counting as itemRemaining.
C4_BooksSoldIsDeriverSum ==
  summary # None =>
    summary.booksSold =
      SumSeq([i \in 1..Len(trip.items) |->
                getItemMetrics(trip.items[i],
                               PriceOf(trip.items[i].book)).quantitySold])

\* C7: the trip aggregate is the component-wise sum of the item rows, is
\* the same for every permutation of the items, and is all zero for a
\* trip without items.
C7_TripAggregateIsSum ==
  summary # None =>
    LET rows == [i \in 1..Len(trip.items) |-> ItemRow(trip.items[i])]
        n == Len(trip.items)
    IN /\ summary.booksOut = SumSeq([i \in 1..n |-> rows[i].qtyOut])
       /\ summary.booksReturn = SumSeq([i \in 1..n |-> rows[i].qtyRet])
       /\ summary.booksSold = SumSeq([i \in 1..n |-> rows[i].quantitySold])
       /\ summary.expectedAmount = SumSeq([i \in 1..n |-> rows[i].expected])
       /\ summary.amountReturned =
            SumSeq([i \in 1..n |-> rows[i].returnedAmt])
       /\ summary.difference = SumSeq([i \in 1..n |-> rows[i].diff])
       /\ \A p \in IndexPermutations(n) :
            computeTripSummary(Rearranged(trip, p)) = summary
       /\ n = 0 => summary = ZeroSummary

\* a summary of two different items whose differences are not zero
C7_Witness ==
  /\ summary # None
  /\ Len(trip.items) = 2
  /\ trip.items[1] # trip.items[2]
  /\ ItemRow(trip.items[1]).diff # 0
  /\ ItemRow(trip.items[1]).diff # ItemRow(trip.items[2]).diff

(* ------------------------------------------------------------------ *)
(* Spec: the ActiveTripsPage                                            *)
(* ------------------------------------------------------------------ *)
\* calendar days as the date input and the backend write them
Day1 == <<"2", "0", "2", "4", "-", "0", "1", "-", "0", "5">>
Day2 == <<"2", "0", "2", "4", "-", "0", "1", "-", "0", "6">>
Day1Time == Day1 \o <<"T", "1", "0", ":", "0", "0", ":", "0", "0", "Z">>

TripIds ==
  <<Str(<<"t", "1">>), Str(<<"t", "2">>), Str(<<"t", "3">>),
    Str(<<"t", "4">>)>>

\* the k-th line of a trip as the backend delivers it: a settled line of a
\* resolved book, or a fresh line whose book is only an id
PageItem(k) ==
  IF k % 2 = 1
    THEN MkItem(BookObj(Str(<<"b", "1">>), Str(<<"A">>), Num(MaxPrice)),
                Num(MaxQty), Num(1), Num(1), Num(MaxAmt))
    ELSE MkItem(BookId(<<"b", "2">>), Num(1), Undefined, Undefined, Undefined)

\* a trip arrives without lines or with MaxItems lines
PageItemLists == {[i \in 1..k |-> PageItem(i)] : k \in {0, MaxItems}}

PageDates == {Str(Day1), Str(Day1Time), Str(Day2)}
PageGroups == {Undefined, Str(<<"G">>), Str(<<" ", "G">>)}

\* what GET /trips may answer: n trips with distinct ids, the i-th with the
\* date, group name and items f[i]
TripChoices == PageDates \X PageGroups \X PageItemLists
ServerTripList(n, f) ==
  [i \in 1..n |->
     MkTrip(TripIds[i], f[i][1], f[i][2], Undefined, f[i][3],
            Undefined, Undefined)]

\* err?.response?.data?.message || "Failed to load trips"
Msg(m) == [t |-> "string", msg |-> m]
LoadErrors == {Msg("Failed to load trips"), Msg("message of the response")}

Init ==
  /\ trips = <<>>
  /\ selectedDate \in {Str(Day1), Str(Day2)}
  /\ expandedTripId = Null
  /\ loading = FALSE
  /\ error = Null
  /\ mounted = FALSE
  /\ loadsInFlight = 0
  /\ savingTripId = Null
  /\ saves = <<>>
  /\ lastHandler = None
  /\ IdleItem
  /\ IdleTrip
  /\ IdleReports
  /\ IdleDash
  /\ IdleAuth
  /\ IdleDelete
  /\ IdleForm

\* useEffect(() => { loadTrips() }, []) up to the await of getTrips
MountEffect ==
  /\ ~mounted
  /\ mounted' = TRUE
  /\ loading' = TRUE
  /\ error' = Null
  /\ loadsInFlight' = loadsInFlight + 1
  /\ UNCHANGED <<trips, selectedDate, expandedTripId, itemVars, tripVars,
                 reportVars, dashVars,
                 saveVars, authVars, deleteVars, formVars>>

\* loadTrips after getTrips resolved
LoadTripsResolve ==
  /\ loadsInFlight > 0
  /\ \E n \in 0..MaxTrips :
       \E f \in [1..n -> TripChoices] : trips' = ServerTripList(n, f)
  /\ loading' = FALSE
  /\ loadsInFlight' = loadsInFlight - 1
  /\ UNCHANGED <<selectedDate, expandedTripId, error, mounted, itemVars, tripVars,
                 reportVars, dashVars,
                 saveVars, authVars, deleteVars, formVars>>

\* loadTrips after getTrips rejected
LoadTripsReject ==
  /\ loadsInFlight > 0
  /\ \E msg \in LoadErrors : error' = msg
  /\ loading' = FALSE
  /\ loadsInFlight' = loadsInFlight - 1
  /\ UNCHANGED <<trips, selectedDate, expandedTripId, mounted, itemVars, tripVars,
                 reportVars, dashVars,
                 saveVars, authVars, deleteVars, formVars>>

\* the date input
SetSelectedDate ==
  /\ \E v \in {Str(<<>>), Str(Day1), Str(Day2)} :
       /\ v # selectedDate
       /\ selectedDate' = v
  /\ UNCHANGED <<trips, expandedTripId, loading, error, mounted,
                 loadsInFlight, itemVars, tripVars,
                 reportVars, dashVars,
                 saveVars, authVars, deleteVars, formVars>>

tripsForDate == FilterDate(trips, selectedDate)
groupedTrips == GroupInto(tripsForDate, <<>>)
pageSummary == pageSummaryOf(tripsForDate)

\* the header button of a displayed trip
ToggleExpand ==
  /\ \E i \in 1..Len(tripsForDate) :
       LET tripId == tripsForDate[i]._id
       IN expandedTripId' =
            IF expandedTripId = tripId THEN Null ELSE tripId
  /\ UNCHANGED <<trips, selectedDate, loading, error, mounted,
                 loadsInFlight, itemVars, tripVars,
                 reportVars, dashVars,
                 saveVars, authVars, deleteVars, formVars>>

Next ==
  \/ MountEffect
  \/ LoadTripsResolve
  \/ LoadTripsReject
  \/ SetSelectedDate
  \/ ToggleExpand

Spec == Init /\ [][Next]_vars

(* ------------------------------------------------------------------ *)
(* Page-level properties (checked under Spec)                           *)
(* ------------------------------------------------------------------ *)
SummaryFields ==
  {"booksOut", "booksReturn", "booksSold", "expectedAmount",
   "amountReturned", "difference"}

\* C8: the aggregate of every displayed group, and the page summary over
\* the trips of the selected date, is the component-wise sum of the trip
\* summaries of its members; for a group of two trips it is
\* summary(T1) + summary(T2) in every component.
C8_GroupAggregateIsSum ==
  /\ \A g \in 1..Len(groupedTrips) :
       LET ts == groupedTrips[g].trips
           sums == [j \in 1..Len(ts) |-> computeTripSummary(ts[j])]
           agg == groupSummaryOf(groupedTrips[g])
       IN \A c \in SummaryFields :
            /\ agg[c] = SumSeq([j \in 1..Len(ts) |-> sums[j][c]])
            /\ Len(ts) = 2 => agg[c] = sums[1][c] + sums[2][c]
  /\ LET ts == tripsForDate
         sums == [j \in 1..Len(ts) |-> computeTripSummary(ts[j])]
     IN /\ pageSummary.trips = Len(ts)
        /\ \A c \in SummaryFields :
             pageSummary[c] = SumSeq([j \in 1..Len(ts) |-> sums[j][c]])

\* a displayed group of two trips that both collected money
C8_Witness ==
  \E g \in 1..Len(groupedTrips) :
    /\ Len(groupedTrips[g].trips) = 2
    /\ computeTripSummary(groupedTrips[g].trips[1]).amountReturned > 0
    /\ computeTripSummary(groupedTrips[g].trips[2]).amountReturned > 0
    /\ computeTripSummary(groupedTrips[g].trips[1]).booksSold > 0

(* ------------------------------------------------------------------ *)
(* SpecEdit: the inputs of the expanded trip of the ActiveTripsPage     *)
(* ------------------------------------------------------------------ *)
DigitChar(d) ==
  CASE d = 0 -> "0" [] d = 1 -> "1" [] d = 2 -> "2" [] d = 3 -> "3"
    [] d = 4 -> "4" [] d = 5 -> "5" [] d = 6 -> "6" [] d = 7 -> "7"
    [] d = 8 -> "8" [] d = 9 -> "9"

\* the decimal text of a natural number, as typed into an input
RECURSIVE NatText(_)
NatText(n) ==
  IF n < 10 THEN <<DigitChar(n)>>
  ELSE NatText(n \div 10) \o <<DigitChar(n % 10)>>

MinusOne == <<"-", "1">>

\* what a number input hands to onChange: the empty text or a number
QtyTexts == {<<>>, MinusOne} \cup {NatText(n) : n \in 1..MaxQty}
AmtTexts == {<<>>, MinusOne, NatText(MaxAmt)}
ReasonTexts == {<<"x">>}

\* the trips on the page when the editing starts: the first is expanded
\* and has one settled line; the second stays collapsed
SettledLine ==
  MkItem(BookObj(Str(<<"b", "1">>), Str(<<"A">>), Num(MaxPrice)),
         Num(MaxQty), Num(1), Num(1), Num(MaxAmt))
FreshLine ==
  MkItem(BookObj(Str(<<"b", "1">>), Str(<<"A">>), Num(MaxPrice)),
         Num(MaxQty), Undefined, Undefined, Undefined)
OtherTrip ==
  MkTrip(TripIds[2], Str(Day1), Undefined, Undefined,
         <<SettledLine, FreshLine>>, Num(MaxAmt), Undefined)

\* the trips of scenarios C and D of the specification
ScenarioC ==
  MkTrip(TripIds[1], Str(Day1), Undefined, Undefined,
         <<MkItem(BookObj(Str(<<"b", "1">>), Str(<<"A">>), Num(20)),
                  Num(10), Num(3), Num(8), Undefined)>>,
         Undefined, Undefined)
ScenarioD ==
  MkTrip(TripIds[1], Str(Day1), Undefined, Undefined,
         <<MkItem(BookObj(Str(<<"b", "1">>), Str(<<"A">>), Num(20)),
                  Num(3), Num(0), Num(3), Num(60)),
           MkItem(BookObj(Str(<<"b", "2">>), Str(<<"B">>), Num(20)),
                  Num(2), Num(0), Num(2), Num(40))>>,
         Num(50), Num(30))

InitEdit ==
  /\ trips = <<MkTrip(TripIds[1], Str(Day1Time), Undefined, Undefined,
                      <<SettledLine>>, Undefined, Undefined),
               OtherTrip>>
  /\ selectedDate = Str(Day1)
  /\ expandedTripId = TripIds[1]
  /\ loading = FALSE
  /\ error = Null
  /\ mounted = TRUE
  /\ loadsInFlight = 0
  /\ savingTripId = Null
  /\ saves = <<>>
  /\ lastHandler = None
  /\ IdleItem
  /\ IdleTrip
  /\ IdleReports
  /\ IdleDash
  /\ IdleAuth
  /\ IdleDelete
  /\ IdleForm

\* the inputs are rendered for the expanded trip of the selected date
ExpandedShown ==
  \E i \in 1..Len(tripsForDate) : tripsForDate[i]._id = expandedTripId
ExpandedTrip ==
  tripsForDate[CHOOSE i \in 1..Len(tripsForDate) :
                 tripsForDate[i]._id = expandedTripId]

Handled(op, idx, field, rawValue) ==
  [op |-> op, tripId |-> expandedTripId, itemIndex |-> idx,
   field |-> field, rawValue |-> rawValue]

\* Qty Out input
EditQtyOut ==
  /\ ExpandedShown
  /\ \E idx \in 1..Len(ExpandedTrip.items) : \E rawValue \in QtyTexts :
       /\ trips' = handleQtyOutChange(trips, expandedTripId, idx, rawValue)
       /\ lastHandler' =
            Handled("handleQtyOutChange", idx, "quantityOut", rawValue)
  /\ UNCHANGED <<selectedDate, expandedTripId, loading, error, mounted,
                 loadsInFlight, savingTripId, saves, itemVars, tripVars,
                 reportVars, dashVars, authVars, deleteVars, formVars>>

\* Qty Return input
EditQtyReturn ==
  /\ ExpandedShown
  /\ \E idx \in 1..Len(ExpandedTrip.items) : \E rawValue \in QtyTexts :
       /\ trips' = handleItemChange(trips, expandedTripId, idx,
                                    "quantityReturn", InputNumber(rawValue))
       /\ lastHandler' =
            Handled("handleItemChange", idx, "quantityReturn", rawValue)
  /\ UNCHANGED <<selectedDate, expandedTripId, loading, error, mounted,
                 loadsInFlight, savingTripId, saves, itemVars, tripVars,
                 reportVars, dashVars, authVars, deleteVars, formVars>>

\* Sold input
EditSold ==
  /\ ExpandedShown
  /\ \E idx \in 1..Len(ExpandedTrip.items) : \E rawValue \in QtyTexts :
       /\ trips' = handleItemSoldChange(trips, expandedTripId, idx, rawValue)
       /\ lastHandler' =
            Handled("handleItemSoldChange", idx, "quantitySold", rawValue)
  /\ UNCHANGED <<selectedDate, expandedTripId, loading, error, mounted,
                 loadsInFlight, savingTripId, saves, itemVars, tripVars,
                 reportVars, dashVars, authVars, deleteVars, formVars>>

\* Amount Returned input
EditAmountReturned ==
  /\ ExpandedShown
  /\ \E idx \in 1..Len(ExpandedTrip.items) : \E rawValue \in AmtTexts :
       /\ trips' = handleItemChange(trips, expandedTripId, idx,
                                    "amountReturned", InputNumber(rawValue))
       /\ lastHandler' =
            Handled("handleItemChange", idx, "amountReturned", rawValue)
  /\ UNCHANGED <<selectedDate, expandedTripId, loading, error, mounted,
                 loadsInFlight, savingTripId, saves, itemVars, tripVars,
                 reportVars, dashVars, authVars, deleteVars, formVars>>

\* Reason input
EditReason ==
  /\ ExpandedShown
  /\ \E idx \in 1..Len(ExpandedTrip.items) : \E rawValue \in ReasonTexts :
       /\ trips' = handleItemChange(trips, expandedTripId, idx,
                                    "differenceReason", Str(rawValue))
       /\ lastHandler' =
            Handled("handleItemChange", idx, "differenceReason", rawValue)
  /\ UNCHANGED <<selectedDate, expandedTripId, loading, error, mounted,
                 loadsInFlight, savingTripId, saves, itemVars, tripVars,
                 reportVars, dashVars, authVars, deleteVars, formVars>>

\* Cash and Online input
EditCashOrOnline ==
  /\ ExpandedShown
  /\ \E field \in {"cashAmount", "onlineAmount"} : \E rawValue \in AmtTexts :
       /\ trips' = handleCashOrOnlineChange(trips, expandedTripId, field,
                                            rawValue)
       /\ lastHandler' =
            Handled("handleCashOrOnlineChange", 0, field, rawValue)
  /\ UNCHANGED <<selectedDate, expandedTripId, loading, error, mounted,
                 loadsInFlight, savingTripId, saves, itemVars, tripVars,
                 reportVars, dashVars, authVars, deleteVars, formVars>>

NextEdit ==
  \/ EditQtyOut
  \/ EditQtyReturn
  \/ EditSold
  \/ EditAmountReturned
  \/ EditReason
  \/ EditCashOrOnline

SpecEdit == InitEdit /\ [][NextEdit]_vars

(* ------------------------------------------------------------------ *)
(* Properties of the edits (checked under SpecEdit)                     *)
(* ------------------------------------------------------------------ *)
\* a stored numeric field, a missing one counting as 0
NumberOrZero(x) == IF x.t = "number" THEN x.v ELSE 0

\* the trip and the line the last handler was called for
HandledTrip ==
  trips[CHOOSE i \in 1..Len(trips) : trips[i]._id = lastHandler.tripId]
HandledLine == HandledTrip.items[lastHandler.itemIndex]

\* C11: the row of a trip shows diffFromReturned = cashAmount +
\* onlineAmount - sum of the items' amountReturned, and shows the mismatch
\* exactly when it is not zero (scenario D: 50 + 30 - 100 = -20, shown);
\* an edit of cashAmount or onlineAmount changes no item's amountReturned
\* and an edit of an amountReturned changes neither cashAmount nor
\* onlineAmount.
C11_MismatchShownNeverCorrected ==
  /\ TripRow(ScenarioD).diffFromReturned = 0 - 20
  /\ TripRow(ScenarioD).mismatchShown
  /\ [][/\ \A i \in 1..Len(trips') :
             LET t == trips'[i]
                 shown == TripRow(t)
                 returned ==
                   SumSeq([j \in 1..Len(t.items) |->
                             NumberOrZero(t.items[j].amountReturned)])
                 diff == NumberOrZero(t.cashAmount)
                           + NumberOrZero(t.onlineAmount) - returned
             IN /\ shown.diffFromReturned = diff
                /\ shown.mismatchShown <=> (diff # 0)
        /\ lastHandler'.op = "handleCashOrOnlineChange" =>
             /\ Len(trips') = Len(trips)
             /\ \A i \in 1..Len(trips) :
                  /\ Len(trips'[i].items) = Len(trips[i].items)
                  /\ \A j \in 1..Len(trips[i].items) :
                       trips'[i].items[j].amountReturned
                         = trips[i].items[j].amountReturned
        /\ lastHandler'.field = "amountReturned" =>
             /\ Len(trips') = Len(trips)
             /\ \A i \in 1..Len(trips) :
                  /\ trips'[i].cashAmount = trips[i].cashAmount
                  /\ trips'[i].onlineAmount = trips[i].onlineAmount
       ]_vars

\* cash was entered for a trip whose lines returned money, and the row
\* still shows a mismatch
C11_Witness ==
  /\ lastHandler # None
  /\ lastHandler.op = "handleCashOrOnlineChange"
  /\ lastHandler.field = "cashAmount"
  /\ TripRow(HandledTrip).cash > 0
  /\ TripRow(HandledTrip).totalReturned > 0
  /\ TripRow(HandledTrip).mismatchShown

\* C12: after handleQtyOutChange has set quantityOut to n, the stored
\* quantitySold of the line is a number between 0 and
\* max(n - quantityReturn, 0); in scenario C (quantityOut 10 -> 2 with
\* quantityReturn 3 and quantitySold 8) the same update leaves
\* itemRemaining 0 and quantitySold 0.
C12_QtyOutReclampsSold ==
  /\ (lastHandler # None /\ lastHandler.op = "handleQtyOutChange") =>
       LET n == Max(0, NumberOrZero(JsNumber(lastHandler.rawValue)))
           remaining == Max(n - NumberOrZero(HandledLine.quantityReturn), 0)
       IN /\ HandledLine.quantityOut = Num(n)
          /\ HandledLine.quantitySold.t = "number"
          /\ HandledLine.quantitySold.v >= 0
          /\ HandledLine.quantitySold.v <= remaining
  /\ LET after == handleQtyOutChange(<<ScenarioC>>, ScenarioC._id, 1,
                                     <<"2">>)[1].items[1]
     IN /\ after.quantityOut = Num(2)
        /\ after.quantityReturn = Num(3)
        /\ after.quantitySold = Num(0)
        /\ ItemRow(after).itemRemaining = 0

\* quantityOut was lowered to the returned quantity of a line that had
\* a sold quantity, and nothing is left as sold
C12_Witness ==
  /\ lastHandler # None
  /\ lastHandler.op = "handleQtyOutChange"
  /\ lastHandler.rawValue = NatText(1)
  /\ HandledLine.quantityReturn = Num(1)
  /\ HandledLine.quantitySold = Num(0)
  /\ HandledLine.amountReturned = Num(MaxAmt)

\* C13: after any sequence of edits, every line of every trip stores
\* quantitySold <= max(quantityOut - quantityReturn, 0) <= quantityOut.
C13_StoredQuantitiesConsistent ==
  \A i \in 1..Len(trips) : \A j \in 1..Len(trips[i].items) :
    LET line == trips[i].items[j]
        out == NumberOrZero(line.quantityOut)
        ret == NumberOrZero(line.quantityReturn)
        sold == NumberOrZero(line.quantitySold)
    IN /\ sold <= Max(out - ret, 0)
       /\ Max(out - ret, 0) <= out

\* C16: after the empty text was entered into the input of quantityOut,
\* quantityReturn, sold, amountReturned, cashAmount or onlineAmount, the
\* stored value of that field is 0.
C16_EmptyTextStoresZero ==
  (/\ lastHandler # None
   /\ lastHandler.rawValue = <<>>
   /\ lastHandler.field # "differenceReason") =>
    IF lastHandler.op = "handleCashOrOnlineChange"
      THEN HandledTrip[lastHandler.field] = Num(0)
      ELSE HandledLine[lastHandler.field] = Num(0)

\* the Qty Out input was cleared on a line whose Qty Return is not zero
C16_Witness ==
  /\ lastHandler # None
  /\ lastHandler.op = "handleQtyOutChange"
  /\ lastHandler.rawValue = <<>>
  /\ HandledLine.quantityOut = Num(0)
  /\ HandledLine.quantityReturn = Num(1)

\* C21: after an edit of quantityOut, quantityReturn, sold, amountReturned,
\* cashAmount or onlineAmount with any numeric text, a negative number
\* included, the stored value of the edited field is >= 0.
C21_EditStoresNoNegative ==
  (/\ lastHandler # None
   /\ lastHandler.field # "differenceReason") =>
    LET stored == IF lastHandler.op = "handleCashOrOnlineChange"
                    THEN HandledTrip[lastHandler.field]
                    ELSE HandledLine[lastHandler.field]
    IN /\ IsRealNumber(stored)
       /\ stored.v >= 0

\* the same statement for the fields whose handlers clamp: every field but
\* quantityReturn and amountReturned
C21_ClampingHandlersStoreNoNegative ==
  (/\ lastHandler # None
   /\ lastHandler.op # "handleItemChange") =>
    LET stored == IF lastHandler.op = "handleCashOrOnlineChange"
                    THEN HandledTrip[lastHandler.field]
                    ELSE HandledLine[lastHandler.field]
    IN /\ IsRealNumber(stored)
       /\ stored.v >= 0

\* the difference of a summary is what its two amounts give
DifferenceConsistent(sum) ==
  sum.difference = sum.amountReturned - sum.expectedAmount

\* C30: after any sequence of edits, the summary of every trip, of every
\* group and of the page has difference = amountReturned - expectedAmount.
C30_SummaryDifferenceConsistent ==
  /\ \A i \in 1..Len(trips) : DifferenceConsistent(computeTripSummary(trips[i]))
  /\ \A g \in 1..Len(groupedTrips) :
       DifferenceConsistent(groupSummaryOf(groupedTrips[g]))
  /\ DifferenceConsistent(pageSummary)

\* an amount was typed into a line of the expanded trip: the trip shows a
\* surplus while the page, with the other trip, shows a deficit
C30_Witness ==
  /\ lastHandler # None
  /\ lastHandler.op = "handleItemChange"
  /\ lastHandler.field = "amountReturned"
  /\ computeTripSummary(ExpandedTrip).difference > 0
  /\ pageSummary.difference < 0
  /\ pageSummary.amountReturned > computeTripSummary(ExpandedTrip).amountReturned
  /\ Len(groupedTrips) = 2

(* ------------------------------------------------------------------ *)
(* SpecReports: the ReportsPage                                         *)
(* ------------------------------------------------------------------ *)
DistObj(id, name) == [t |-> "object", _id |-> Str(id), name |-> Str(name)]

\* a distributor is populated, or only its id
ReportDistributors ==
  {DistObj(<<"d", "1">>, NameA), DistObj(<<"d", "2">>, NameB),
   Str(<<"d", "3">>)}

\* a settled line, a line without a stored quantitySold, and a line whose
\* book is only an id
ReportItems ==
  {MkItem(BookObj(Str(<<"b", "1">>), Str(NameA), Num(MaxPrice)),
          Num(MaxQty), Num(1), Num(1), Num(MaxAmt)),
   MkItem(BookObj(Str(<<"b", "2">>), Str(NameB), Num(1)),
          Num(MaxQty), Undefined, Undefined, Undefined),
   MkItem(BookId(<<"b", "3">>), Num(1), Undefined, Undefined, Num(1))}

ReportChoices ==
  ReportDistributors \X SeqsUpTo(ReportItems, MaxItems)
    \X {Undefined, Num(MaxAmt)}

ReportTripList(n, f) ==
  [i \in 1..n |->
     MkTrip(TripIds[i], Str(Day1), Undefined, f[i][1], f[i][2],
            f[i][3], f[i][3])]

ReportErrors ==
  {Msg("Failed to load reports data"), Msg("message of the response")}

InitReports ==
  /\ reportTrips = <<>>
  /\ reportLoading = FALSE
  /\ reportError = Null
  /\ reportMounted = FALSE
  /\ reportPending = FALSE
  /\ reportSelectedDate = Str(<<>>)
  /\ IdleItem
  /\ IdleTrip
  /\ IdlePage
  /\ IdleDash
  /\ IdleSave
  /\ IdleAuth
  /\ IdleDelete
  /\ IdleForm

\* the mount effect up to the await of getTrips
ReportMount ==
  /\ ~reportMounted
  /\ reportMounted' = TRUE
  /\ reportLoading' = TRUE
  /\ reportError' = Null
  /\ reportPending' = TRUE
  /\ UNCHANGED <<reportTrips, reportSelectedDate,
                 itemVars, tripVars, pageVars, dashVars,
                 saveVars, authVars, deleteVars, formVars>>

ReportLoadResolve ==
  /\ reportPending
  /\ \E n \in 0..MaxTrips :
       \E f \in [1..n -> ReportChoices] :
         reportTrips' = ReportTripList(n, f)
  /\ reportLoading' = FALSE
  /\ reportPending' = FALSE
  /\ UNCHANGED <<reportError, reportMounted, reportSelectedDate,
                 itemVars, tripVars, pageVars,
                 dashVars,
                 saveVars, authVars, deleteVars, formVars>>

ReportLoadReject ==
  /\ reportPending
  /\ \E msg \in ReportErrors : reportError' = msg
  /\ reportLoading' = FALSE
  /\ reportPending' = FALSE
  /\ UNCHANGED <<reportTrips, reportMounted, reportSelectedDate,
                 itemVars, tripVars, pageVars,
                 dashVars,
                 saveVars, authVars, deleteVars, formVars>>

NextReports == ReportMount \/ ReportLoadResolve \/ ReportLoadReject

SpecReports == InitReports /\ [][NextReports]_vars

overall == overallOf(reportTrips)
bookSummaries == bookSummariesOf(reportTrips)
distributorSummaries == distributorSummariesOf(reportTrips)

\* C9: the per-book and the per-distributor view of the same trip list
\* agree in total: the sums over the books of totalSold, expectedAmount
\* and amountCollected equal the sums over the distributors of booksSold,
\* expectedAmount and amountCollected, and the sold and collected totals
\* equal those of overall; also when a book is only an id.
C9_BookAndDistributorTotalsAgree ==
  LET books == bookSummaries
      dists == distributorSummaries
      bookSum(f) == SumSeq([i \in 1..Len(books) |-> books[i][f]])
      distSum(f) == SumSeq([i \in 1..Len(dists) |-> dists[i][f]])
  IN /\ bookSum("totalSold") = distSum("booksSold")
     /\ bookSum("expectedAmount") = distSum("expectedAmount")
     /\ bookSum("amountCollected") = distSum("amountCollected")
     /\ bookSum("totalSold") = overall.totalSold
     /\ bookSum("amountCollected") = overall.totalCollected

(* ------------------------------------------------------------------ *)
(* SpecDist: the per-distributor report and its date filter             *)
(* ------------------------------------------------------------------ *)
\* trips of two distributors on two days: with one line and no recorded
\* amounts, or with two lines and a cash and an online amount
DistLines ==
  {<<<<MkItem(BookObj(Str(<<"b", "1">>), Str(NameA), Num(MaxPrice)),
              Num(MaxQty), Num(1), Num(1), Num(MaxAmt))>>,
     Undefined, Undefined>>,
   <<<<MkItem(BookObj(Str(<<"b", "1">>), Str(NameA), Num(MaxPrice)),
              Num(MaxQty), Num(1), Num(1), Num(MaxAmt)),
       MkItem(BookObj(Str(<<"b", "2">>), Str(NameB), Num(1)),
              Num(MaxQty), Undefined, Undefined, Undefined)>>,
     Num(1), Num(MaxAmt + 1)>>}
DistChoices ==
  {DistObj(<<"d", "1">>, NameA), DistObj(<<"d", "2">>, NameB)}
    \X DistLines \X {Day1Time, Day2}

DistTripList(n, f) ==
  [i \in 1..n |->
     MkTrip(TripIds[i], Str(f[i][3]), Undefined, f[i][1], f[i][2][1],
            f[i][2][2], f[i][2][3])]

\* getTrips resolved: the rest of loadTrips
DistLoadResolve ==
  /\ reportPending
  /\ \E n \in 0..MaxTrips :
       \E f \in [1..n -> DistChoices] :
         reportTrips' = DistTripList(n, f)
  /\ reportLoading' = FALSE
  /\ reportPending' = FALSE
  /\ UNCHANGED <<reportError, reportMounted, reportSelectedDate, itemVars,
                 tripVars, pageVars, dashVars, saveVars, authVars,
                 deleteVars, formVars>>

\* the date input and the Clear date button: setSelectedDate
SetReportDate ==
  /\ \E d \in {<<>>, Day1, Day2} : reportSelectedDate' = Str(d)
  /\ UNCHANGED <<reportTrips, reportLoading, reportError, reportMounted,
                 reportPending, itemVars, tripVars, pageVars, dashVars,
                 saveVars, authVars, deleteVars, formVars>>

NextDist ==
  \/ ReportMount
  \/ DistLoadResolve
  \/ ReportLoadReject
  \/ SetReportDate

SpecDist == InitReports /\ [][NextDist]_vars

\* the id that distributorData files a trip under
DistIdOf(t) == OrString(OptField(t.distributor, "_id"), UnknownId)

\* the sum of a trip-level amount over the trips of a distributor, each
\* trip once
TripAmounts(ts, distributorId, field) ==
  SumSeq([i \in 1..Len(ts) |->
            IF DistIdOf(ts[i]) = distributorId
              THEN NumberOrZero(ts[i][field]) ELSE 0])

\* how many lines the trips of a distributor have on the given day, or on
\* any day when no day is given
LinesOn(ts, distributorId, day) ==
  SumSeq([i \in 1..Len(ts) |->
            IF /\ DistIdOf(ts[i]) = distributorId
               /\ day = <<>> \/ normalizeDate(ts[i].date) = day
              THEN Len(ts[i].items) ELSE 0])

\* C25: every trip's cashAmount and onlineAmount count once in the summary
\* of its distributor, not once per item, so that the distributors'
\* cashAmount and onlineAmount add up to totalCash and totalOnline of
\* overall; the selected date decides which drill-down rows are shown, and
\* selecting a date changes no summary value.
C25_AmountsOncePerTripAndDateFiltersRows ==
  [][/\ reportSelectedDate' # reportSelectedDate =>
          /\ reportTrips' = reportTrips
          /\ reportPending' = reportPending
     /\ LET ts == reportTrips'
            day == reportSelectedDate'.s
            dists == distributorSummariesOf(ts)
            all == overallOf(ts)
        IN /\ \A i \in 1..Len(dists) :
                LET sum == dists[i]
                    id == sum.distributorId
                    shown == filteredRowsOf(rowsByDistIdOf(ts, id),
                                            reportSelectedDate')
                IN /\ sum.cashAmount = TripAmounts(ts, id, "cashAmount")
                   /\ sum.onlineAmount = TripAmounts(ts, id, "onlineAmount")
                   /\ Len(shown) = LinesOn(ts, id, day)
                   /\ \A j \in 1..Len(shown) :
                        day # <<>> => shown[j].date.s = day
           /\ SumSeq([i \in 1..Len(dists) |-> dists[i].cashAmount])
                = all.totalCash
           /\ SumSeq([i \in 1..Len(dists) |-> dists[i].onlineAmount])
                = all.totalOnline
    ]_vars

\* a day is selected on which a distributor has a two-line trip with cash
\* and another trip on the other day: one of its trips is hidden from the
\* rows while its summary counts the cash of both, once each
C25_Witness ==
  /\ reportSelectedDate = Str(Day1)
  /\ Len(reportTrips) = 2
  /\ DistIdOf(reportTrips[1]) = DistIdOf(reportTrips[2])
  /\ Len(reportTrips[1].items) = 2
  /\ reportTrips[1].cashAmount = Num(1)
  /\ reportTrips[2].cashAmount = Num(1)
  /\ normalizeDate(reportTrips[1].date) = Day1
  /\ normalizeDate(reportTrips[2].date) = Day2
  /\ distributorSummariesOf(reportTrips)[1].cashAmount = 2
  /\ Len(filteredRowsOf(rowsByDistIdOf(reportTrips,
                                       DistIdOf(reportTrips[1])),
                        reportSelectedDate)) = 2

(* ------------------------------------------------------------------ *)
(* SpecDash: the Dashboard                                              *)
(* ------------------------------------------------------------------ *)
DashItems ==
  {MkItem(BookObj(Str(<<"b", "1">>), Str(NameA), Num(MaxPrice)),
          Num(MaxQty), Num(1), Undefined, Num(MaxAmt)),
   MkItem(BookId(<<"b", "2">>), Num(1), Undefined, Undefined, Undefined),
   MkItem(Undefined, Undefined, Undefined, Undefined, Undefined)}

DashChoices == PageDates \X SeqsUpTo(DashItems, MaxItems)

DashTripList(n, f) ==
  [i \in 1..n |->
     MkTrip(TripIds[i], f[i][1], Undefined, Undefined, f[i][2],
            Undefined, Undefined)]

DashErrors ==
  {Msg("Failed to load dashboard data"), Msg("message of the response")}

InitDash ==
  /\ dashTrips = <<>>
  /\ dashLoading = FALSE
  /\ dashError = Null
  /\ dashMounted = FALSE
  /\ dashPending = FALSE
  /\ IdleItem
  /\ IdleTrip
  /\ IdlePage
  /\ IdleReports
  /\ IdleSave
  /\ IdleAuth
  /\ IdleDelete
  /\ IdleForm

\* the mount effect up to the await of Promise.all
DashMount ==
  /\ ~dashMounted
  /\ dashMounted' = TRUE
  /\ dashLoading' = TRUE
  /\ dashError' = Null
  /\ dashPending' = TRUE
  /\ UNCHANGED <<dashTrips, itemVars, tripVars, pageVars, reportVars,
                 saveVars, authVars, deleteVars, formVars>>

\* load after all four requests resolved (the summaries and the stock total
\* it also stores do not feed dailyAggs)
DashLoadResolve ==
  /\ dashPending
  /\ \E n \in 0..MaxTrips :
       \E f \in [1..n -> DashChoices] : dashTrips' = DashTripList(n, f)
  /\ dashLoading' = FALSE
  /\ dashPending' = FALSE
  /\ UNCHANGED <<dashError, dashMounted, itemVars, tripVars, pageVars,
                 reportVars,
                 saveVars, authVars, deleteVars, formVars>>

DashLoadReject ==
  /\ dashPending
  /\ \E msg \in DashErrors : dashError' = msg
  /\ dashLoading' = FALSE
  /\ dashPending' = FALSE
  /\ UNCHANGED <<dashTrips, dashMounted, itemVars, tripVars, pageVars,
                 reportVars,
                 saveVars, authVars, deleteVars, formVars>>

NextDash == DashMount \/ DashLoadResolve \/ DashLoadReject

SpecDash == InitDash /\ [][NextDash]_vars

dailyAggs == dailyAggsOf(dashTrips)

\* the first ten characters of a date string
FirstTen(d) == [i \in 1..(IF Len(d) < 10 THEN Len(d) ELSE 10) |-> d[i]]

\* C10: the Day Aggregator buckets trips by the date cut to its first ten
\* characters: every trip is accumulated into the bucket named by the
\* first ten characters of its date, so that trips dated
\* "2024-01-05T10:00:00Z" and "2024-01-05" share the bucket "2024-01-05".
C10_DayBucketIsNormalizedDate ==
  /\ \A i \in 1..Len(dashTrips) :
       \E k \in 1..Len(dailyAggs) :
         dailyAggs[k].date = Str(FirstTen(dashTrips[i].date.s))
  /\ \A i, j \in 1..Len(dashTrips) :
       (dashTrips[i].date = Str(Day1Time) /\ dashTrips[j].date = Str(Day1))
         => Cardinality({k \in 1..Len(dailyAggs) :
                           FirstTen(dailyAggs[k].date.s) = Day1}) = 1

(* ------------------------------------------------------------------ *)
(* SpecGroup: the groups of the ActiveTripsPage                         *)
(* ------------------------------------------------------------------ *)
\* group names as the backend stores them: none, blank, and names that
\* differ only in surrounding blanks
GroupNames ==
  {Undefined, Str(<<" ">>), Str(<<"G">>), Str(<<"G", " ">>), Str(<<"H">>)}
GroupDates == {Str(Day1Time), Str(Day2)}
GroupChoices == GroupDates \X GroupNames

GroupTripList(n, f) ==
  [i \in 1..n |->
     MkTrip(TripIds[i], f[i][1], f[i][2], Undefined, <<>>,
            Undefined, Undefined)]

\* the page after its first load
InitGroup ==
  /\ \E n \in 0..(MaxTrips + 1) :
       \E f \in [1..n -> GroupChoices] : trips = GroupTripList(n, f)
  /\ selectedDate \in {Str(Day1), Str(Day2)}
  /\ expandedTripId = Null
  /\ loading = FALSE
  /\ error = Null
  /\ mounted = TRUE
  /\ loadsInFlight = 0
  /\ savingTripId = Null
  /\ saves = <<>>
  /\ lastHandler = None
  /\ IdleItem
  /\ IdleTrip
  /\ IdleReports
  /\ IdleDash
  /\ IdleAuth
  /\ IdleDelete
  /\ IdleForm

\* the date input; the header buttons do not change the groups
NextGroup == SetSelectedDate

SpecGroup == InitGroup /\ [][NextGroup]_vars

\* the trimmed group name of a trip, empty when it has none
StatedGroup(t) ==
  IF t.groupName.t = "string" THEN Trim(t.groupName.s) ELSE <<>>

\* the positions (group, place) at which the trip with the given id is
\* found in a list of groups
ShownAt(groups, id) ==
  UNION {{<<g, k>> : k \in {k \in 1..Len(groups[g].trips) :
                                 groups[g].trips[k]._id = id}} :
           g \in 1..Len(groups)}

\* C14: the displayed groups partition the trips of the selected date: a
\* trip is shown if and only if the first ten characters of its date are
\* the selected date, a shown trip is in exactly one group, two shown trips
\* share a group if and only if both have the same non-empty trimmed
\* groupName, and a trip whose groupName is missing, empty or blank is
\* alone in its group.
C14_GroupsPartitionTheDay ==
  LET groups == groupedTrips
      at == [i \in 1..Len(trips) |-> ShownAt(groups, trips[i]._id)]
      name == [i \in 1..Len(trips) |-> StatedGroup(trips[i])]
  IN /\ \A g \in 1..Len(groups) : groups[g].trips # <<>>
     /\ \A i \in 1..Len(trips) :
          IF FirstTen(trips[i].date.s) = FirstTen(selectedDate.s)
            THEN Cardinality(at[i]) = 1
            ELSE at[i] = {}
     /\ \A i, j \in 1..Len(trips) :
          (i # j /\ at[i] # {} /\ at[j] # {})
            => ((\E p \in at[i], q \in at[j] : p[1] = q[1])
                 <=> (name[i] # <<>> /\ name[i] = name[j]))
     /\ \A i \in 1..Len(trips) :
          name[i] = <<>> =>
            \A p \in at[i] : Len(groups[p[1]].trips) = 1

\* three trips of the day are shown: two in one group whose stored names
\* differ in a trailing blank, and one with a blank name on its own
C14_Witness ==
  /\ Len(tripsForDate) = 3
  /\ Len(groupedTrips) = 2
  /\ \E g \in 1..Len(groupedTrips) :
       /\ Len(groupedTrips[g].trips) = 2
       /\ groupedTrips[g].trips[1].groupName
            # groupedTrips[g].trips[2].groupName
  /\ \E g \in 1..Len(groupedTrips) :
       /\ Len(groupedTrips[g].trips) = 1
       /\ groupedTrips[g].trips[1].groupName = Str(<<" ">>)

(* ------------------------------------------------------------------ *)
(* SpecDays: the Dashboard with trips of many days                      *)
(* ------------------------------------------------------------------ *)
\* the k-th day of January 2024 as the backend writes it
DayText(k) ==
  <<"2", "0", "2", "4", "-", "0", "1", "-">>
    \o (IF k < 10 THEN <<"0">> ELSE <<>>) \o NatText(k)

\* the numbers of a set in ascending order
RECURSIVE Ascending(_)
Ascending(S) ==
  IF S = {} THEN <<>>
  ELSE LET m == CHOOSE m \in S : \A n \in S : m <= n
       IN <<m>> \o Ascending(S \ {m})

Reversed(s) == [i \in 1..Len(s) |-> s[Len(s) + 1 - i]]

\* the second half of a sequence in front of the first
Swapped(s) ==
  SubSeq(s, Len(s) \div 2 + 1, Len(s)) \o SubSeq(s, 1, Len(s) \div 2)

\* trips of the given days, in the given order, one line each
DayTripList(days) ==
  [i \in 1..Len(days) |->
     MkTrip(Str(<<"t">> \o NatText(i)), Str(DayText(days[i])), Undefined,
            Undefined,
            <<MkItem(BookObj(Str(<<"b", "1">>), Str(NameA), Num(MaxPrice)),
                     Num(MaxQty), Num(1), Undefined, Num(MaxAmt))>>,
            Undefined, Undefined)]

\* load resolved with trips of any set of days, oldest first, newest first
\* or neither, and possibly a second trip on the day of the first
DaysLoadResolve ==
  /\ dashPending
  /\ \E S \in SUBSET (1..MaxDays) : \E again \in BOOLEAN :
       \E days \in {Ascending(S), Reversed(Ascending(S)),
                    Swapped(Ascending(S))} :
         dashTrips' =
           DayTripList(IF again /\ days # <<>>
                         THEN Append(days, days[1]) ELSE days)
  /\ dashLoading' = FALSE
  /\ dashPending' = FALSE
  /\ UNCHANGED <<dashError, dashMounted, itemVars, tripVars, pageVars,
                 reportVars, saveVars, authVars, deleteVars, formVars>>

NextDays == DashMount \/ DaysLoadResolve \/ DashLoadReject

SpecDays == InitDash /\ [][NextDays]_vars

\* the date strings of the trips
TripDates == {dashTrips[i].date.s : i \in 1..Len(dashTrips)}

\* C15: dailyAggs has one entry per distinct date of the trips, in
\* strictly descending order of the date string, at most 7 entries, and
\* its entries are the (up to) 7 greatest dates of the trip list.
C15_SevenGreatestDaysDescending ==
  LET out == dailyAggs
      shown == {out[k].date.s : k \in 1..Len(out)}
  IN /\ shown \subseteq TripDates
     /\ Cardinality(shown) = Len(out)
     /\ \A k \in 1..(Len(out) - 1) : StrLess(out[k + 1].date.s, out[k].date.s)
     /\ Len(out) <= 7
     /\ Len(out) = Min(7, Cardinality(TripDates))
     /\ \A d \in TripDates \ shown : \A e \in shown : StrLess(d, e)

\* trips of more than 7 days arrive neither oldest nor newest first, two
\* of them on one day, and 7 days are kept
C15_Witness ==
  /\ Cardinality(TripDates) > 7
  /\ Len(dashTrips) > Cardinality(TripDates)
  /\ \E i \in 1..(Len(dashTrips) - 2) :
       StrLess(dashTrips[i].date.s, dashTrips[i + 1].date.s)
  /\ \E i \in 1..(Len(dashTrips) - 2) :
       StrLess(dashTrips[i + 1].date.s, dashTrips[i].date.s)
  /\ Len(dailyAggs) = 7

(* ------------------------------------------------------------------ *)
(* SpecAuth: the API client and its session                             *)
(* ------------------------------------------------------------------ *)

LoginPath == Str(<<"/", "l", "o", "g", "i", "n">>)
DashboardPath == Str(<<"/", "d", "a", "s", "h", "b", "o", "a", "r", "d">>)
TripsPath == Str(<<"/", "t", "r", "i", "p", "s">>)
RootPath == Str(<<"/">>)
Paths == {LoginPath, DashboardPath, TripsPath}

\* tokens the backend hands out
Tokens == {Str(<<"k", "1">>), Str(<<"k", "2">>)}

\* `Bearer ${token}`
Bearer(token) == Str(<<"B", "e", "a", "r", "e", "r", " ">> \o token.s)

\* the session: the module variable, the default header and the stored item
Session == [authToken |-> authToken, authHeader |-> authHeader,
            storedToken |-> storedToken]

\* a setAuthToken that leaves the stored token when it clears the session
setAuthToken_KeepsStorage(session, token) ==
  IF ~Falsy(token)
    THEN [authToken |-> token, authHeader |-> Bearer(token),
          storedToken |-> token]
    ELSE [authToken |-> token, authHeader |-> Undefined,
          storedToken |-> session.storedToken]

setAuthToken(session, token) ==
  IF ~Falsy(token)
    THEN [authToken |-> token, authHeader |-> Bearer(token),
          storedToken |-> token]
    ELSE [authToken |-> token, authHeader |-> Undefined,
          storedToken |-> Null]

\* a start that takes the stored token into the module variable only
initAuthFromStorage_TokenOnly(session) ==
  IF ~Falsy(session.storedToken)
    THEN [session EXCEPT !.authToken = session.storedToken]
    ELSE session

initAuthFromStorage(session) ==
  IF ~Falsy(session.storedToken)
    THEN setAuthToken(session, session.storedToken)
    ELSE session

\* isLoggedIn: !!localStorage.getItem("authToken")
isLoggedIn(stored) == ~Falsy(stored)

\* ProtectedRoute: the path that is shown for a protected path
ProtectedRoute(path, stored) ==
  IF ~isLoggedIn(stored) THEN LoginPath ELSE path

\* PublicRoute: the path that is shown for /login
PublicRoute(path, stored) ==
  IF isLoggedIn(stored) THEN DashboardPath ELSE path

\* the routes of App: the path that is shown when the given path is opened
routeFor(path, stored) ==
  IF path = RootPath
    THEN IF isLoggedIn(stored) THEN DashboardPath ELSE LoginPath
  ELSE IF path = LoginPath THEN PublicRoute(path, stored)
  ELSE ProtectedRoute(path, stored)

\* the Authorization header of a request: the default header, or the one
\* the request interceptor adds from authToken
requestAuthorization(session) ==
  IF session.authHeader # Undefined THEN session.authHeader
  ELSE IF ~Falsy(session.authToken) THEN Bearer(session.authToken)
  ELSE Undefined

\* the rejected handler of the response interceptor: the session and the
\* pathname afterwards, whether the browser was sent to /login, and the
\* error that Promise.reject hands on
responseRejected(session, path, status) ==
  IF status = Num(401)
    THEN [session |-> setAuthToken(session, Null),
          path |-> LoginPath,
          redirected |-> path # LoginPath,
          rejectedWith |-> status]
    ELSE [session |-> session, path |-> path, redirected |-> FALSE,
          rejectedWith |-> status]

\* the client module is loaded; a token of an earlier visit may be stored
InitAuth ==
  /\ authToken = Null
  /\ authHeader = Undefined
  /\ storedToken \in {Null} \cup Tokens
  /\ pathname \in {routeFor(path, storedToken) : path \in Paths}
  /\ requests = <<>>
  /\ lastResponse = None
  /\ IdleItem
  /\ IdleTrip
  /\ IdlePage
  /\ IdleReports
  /\ IdleDash
  /\ IdleSave
  /\ IdleDelete
  /\ IdleForm

SetSession(session) ==
  /\ authToken' = session.authToken
  /\ authHeader' = session.authHeader
  /\ storedToken' = session.storedToken

\* initAuthFromStorage()
InitAuthFromStorage ==
  /\ SetSession(initAuthFromStorage(Session))
  /\ UNCHANGED <<pathname, requests, lastResponse, itemVars, tripVars,
                 pageVars, reportVars, dashVars, saveVars, deleteVars,
                 formVars>>

\* a link of the application is followed, or a path is opened: the routes
\* of App decide what is shown
Navigate ==
  /\ \E path \in Paths \cup {RootPath} :
       /\ routeFor(path, storedToken) # pathname
       /\ pathname' = routeFor(path, storedToken)
  /\ UNCHANGED <<authToken, authHeader, storedToken, requests, lastResponse,
                 itemVars, tripVars, pageVars, reportVars, dashVars,
                 saveVars, deleteVars, formVars>>

\* loginAdmin or registerAdmin is called from the login page
SendLogin ==
  /\ pathname = LoginPath
  /\ Len(requests) < MaxRequests
  /\ requests' = Append(requests, [kind |-> "login",
                                   auth |-> requestAuthorization(Session)])
  /\ UNCHANGED <<authToken, authHeader, storedToken, pathname, lastResponse,
                 itemVars, tripVars, pageVars, reportVars, dashVars,
                 saveVars, deleteVars, formVars>>

\* a page of the application requests data
SendData ==
  /\ pathname # LoginPath
  /\ Len(requests) < MaxRequests
  /\ requests' = Append(requests, [kind |-> "data",
                                   auth |-> requestAuthorization(Session)])
  /\ UNCHANGED <<authToken, authHeader, storedToken, pathname, lastResponse,
                 itemVars, tripVars, pageVars, reportVars, dashVars,
                 saveVars, deleteVars, formVars>>

Without(s, i) == SubSeq(s, 1, i - 1) \o SubSeq(s, i + 1, Len(s))

\* a request is answered with success; after a login the token of the
\* answer is set and the login page navigates to the dashboard
ResponseFulfilled ==
  \E i \in 1..Len(requests) :
    /\ requests' = Without(requests, i)
    /\ lastResponse' = [kind |-> requests[i].kind, auth |-> requests[i].auth,
                        status |-> Num(200), outcome |-> "fulfilled",
                        redirected |-> FALSE]
    /\ IF requests[i].kind = "login"
         THEN /\ \E token \in Tokens : SetSession(setAuthToken(Session, token))
              /\ pathname' = routeFor(DashboardPath, storedToken')
         ELSE UNCHANGED <<authToken, authHeader, storedToken, pathname>>
    /\ UNCHANGED <<itemVars, tripVars, pageVars, reportVars, dashVars,
                   saveVars, deleteVars, formVars>>

\* what error?.response?.status may be: an error status, or undefined when
\* no response arrived
ErrorStatuses == {Num(401), Num(500), Undefined}

\* a request fails: the response interceptor runs and rejects; a redirect
\* loads the login page, which drops the requests of the page left
ResponseRejected ==
  \E i \in 1..Len(requests) : \E status \in ErrorStatuses :
    LET after == responseRejected(Session, pathname, status)
    IN /\ requests' = IF after.redirected THEN <<>> ELSE Without(requests, i)
       /\ lastResponse' = [kind |-> requests[i].kind,
                           auth |-> requests[i].auth,
                           status |-> after.rejectedWith,
                           outcome |-> "rejected",
                           redirected |-> after.redirected]
       /\ SetSession(after.session)
       /\ pathname' = after.path
       /\ UNCHANGED <<itemVars, tripVars, pageVars, reportVars, dashVars,
                      saveVars, deleteVars, formVars>>

NextAuth ==
  \/ InitAuthFromStorage
  \/ Navigate
  \/ SendLogin
  \/ SendData
  \/ ResponseFulfilled
  \/ ResponseRejected

SpecAuth == InitAuth /\ [][NextAuth]_vars

\* C17: when a request was answered with 401, then after the response
\* interceptor the in-memory token is null, the default Authorization
\* header and the stored authToken are gone, the pathname is /login, the
\* browser was sent there exactly if it was elsewhere, and the caller got
\* the rejection with the 401 error.
C17_UnauthorizedTearsSessionDown ==
  [][(/\ Len(requests') < Len(requests)
      /\ lastResponse'.status = Num(401))
       => /\ authToken' = Null
          /\ authHeader' = Undefined
          /\ storedToken' = Null
          /\ pathname' = LoginPath
          /\ lastResponse'.redirected <=> (pathname # LoginPath)
          /\ lastResponse'.outcome = "rejected"
    ]_vars

\* a request that carried a token was answered with 401 away from the
\* login page: the session is gone and the browser is at /login
C17_Witness ==
  /\ lastResponse # None
  /\ lastResponse.status = Num(401)
  /\ lastResponse.kind = "data"
  /\ lastResponse.auth \in {Bearer(token) : token \in Tokens}
  /\ lastResponse.redirected
  /\ authToken = Null
  /\ authHeader = Undefined
  /\ storedToken = Null
  /\ pathname = LoginPath

\* the in-memory token, the default Authorization header and the stored
\* token name the same token, or all three are absent
TokenCopiesAgree ==
  \/ authToken = Null /\ authHeader = Undefined /\ storedToken = Null
  \/ \E token \in Tokens :
       /\ authToken = token
       /\ authHeader = Bearer(token)
       /\ storedToken = token

\* the state of a visit that found a stored token and has run none of
\* setAuthToken, initAuthFromStorage or the response interceptor yet
StoredTokenNotYetRead ==
  /\ authToken = Null
  /\ authHeader = Undefined
  /\ storedToken \in Tokens

\* C29: after setAuthToken, a successful login or registration,
\* initAuthFromStorage and the 401 handling, in any order, the in-memory
\* token, the default Authorization header and the stored token are all
\* absent or all the same token (the copies differ only while a stored
\* token was not read yet); the route guards show a protected page exactly
\* when a token is stored and the login page exactly when none is; a 401 on
\* a protected page ends at the login page, which the guards then leave
\* alone.
C29_TokenCopiesAgreeAndGuardsFollow ==
  /\ [](TokenCopiesAgree \/ StoredTokenNotYetRead)
  /\ [](pathname = LoginPath <=> ~isLoggedIn(storedToken))
  /\ [](\A path \in Paths :
          routeFor(path, storedToken) = path
            <=> (path = LoginPath <=> storedToken = Null))
  /\ [][/\ TokenCopiesAgree => TokenCopiesAgree'
        /\ <<authToken, authHeader, storedToken>>'
             # <<authToken, authHeader, storedToken>> => TokenCopiesAgree'
        /\ (/\ Len(requests') < Len(requests)
            /\ lastResponse'.status = Num(401)
            /\ pathname # LoginPath)
             => /\ pathname' = LoginPath
                /\ routeFor(pathname', storedToken') = LoginPath
                /\ requests' = <<>>
    ]_vars

\* a visit that found a stored token read it, reached a protected page and
\* got a 401 there: all three copies are absent, the login page is shown
\* and every protected path leads to it
C29_Witness ==
  /\ lastResponse # None
  /\ lastResponse.status = Num(401)
  /\ lastResponse.redirected
  /\ lastResponse.auth \in {Bearer(token) : token \in Tokens}
  /\ TokenCopiesAgree
  /\ ~isLoggedIn(storedToken)
  /\ routeFor(pathname, storedToken) = LoginPath
  /\ \A path \in Paths : routeFor(path, storedToken) = LoginPath

(* ------------------------------------------------------------------ *)
(* SpecSave: saving the returns of a trip on the ActiveTripsPage        *)
(* ------------------------------------------------------------------ *)
\* a list replacement that keeps the local copy of every trip it knows
setTrips_KeepsLocalEdits(prev, data) ==
  [i \in 1..Len(data) |->
     IF \E k \in 1..Len(prev) : prev[k]._id = data[i]._id
       THEN prev[CHOOSE k \in 1..Len(prev) : prev[k]._id = data[i]._id]
       ELSE data[i]]

\* setTrips(data)
setTrips(prev, data) == data

\* a catch block that sets no error
saveError_Swallowed(responseMessage) == Null

\* err?.response?.data?.message || "Failed to save trip returns/amounts"
saveError(responseMessage) ==
  IF responseMessage = Undefined
    THEN Msg("Failed to save trip returns/amounts")
    ELSE responseMessage

\* err?.response?.data?.message || "Failed to load trips"
loadError(responseMessage) ==
  IF responseMessage = Undefined THEN Msg("Failed to load trips")
  ELSE responseMessage

\* the message of an error response, if it has one
ResponseMessages == {Undefined, Msg("message of the response")}

\* what the backend holds for the two trips of the page: the cash it has
\* recorded for each, or only the second trip when the first was deleted
SavedTrip(k, cash) ==
  MkTrip(TripIds[k], Str(Day1), Undefined, Undefined,
         <<SettledLine>>, cash, Undefined)
SavedCash == {Undefined, Num(1)}
SavedLists ==
  {<<SavedTrip(1, c1), SavedTrip(2, c2)>> : c1 \in SavedCash, c2 \in SavedCash}
    \cup {<<SavedTrip(2, c2)>> : c2 \in SavedCash}

\* the page after its first load
InitSave ==
  /\ trips \in SavedLists
  /\ Len(trips) = 2
  /\ selectedDate = Str(Day1)
  /\ expandedTripId = Null
  /\ loading = FALSE
  /\ error = Null
  /\ mounted = TRUE
  /\ loadsInFlight = 0
  /\ savingTripId = Null
  /\ saves = <<>>
  /\ lastHandler = None
  /\ IdleItem
  /\ IdleTrip
  /\ IdleReports
  /\ IdleDash
  /\ IdleAuth
  /\ IdleDelete
  /\ IdleForm

\* the cash input of the expanded trip
EditCash ==
  /\ ExpandedShown
  /\ trips' = handleCashOrOnlineChange(trips, expandedTripId, "cashAmount",
                                       NatText(MaxAmt))
  /\ lastHandler' =
       Handled("handleCashOrOnlineChange", 0, "cashAmount", NatText(MaxAmt))
  /\ UNCHANGED <<selectedDate, expandedTripId, loading, error, mounted,
                 loadsInFlight, savingTripId, saves, itemVars, tripVars,
                 reportVars, dashVars, authVars, deleteVars, formVars>>

\* a step of handleSaveTripReturns: data is the request it sent or the
\* list it received, before is the trip list it replaced
SaveStep(step, tripId, data, before) ==
  [op |-> "handleSaveTripReturns", step |-> step, tripId |-> tripId,
   data |-> data, before |-> before]

\* the save button of the expanded trip: handleSaveTripReturns up to the
\* await of updateTripReturns
SaveClick ==
  /\ ExpandedShown
  /\ savingTripId # expandedTripId
  /\ Len(saves) < MaxSaves
  /\ savingTripId' = expandedTripId
  /\ error' = Null
  /\ saves' = Append(saves, [tripId |-> expandedTripId, awaits |-> "update"])
  /\ lastHandler' =
       SaveStep("click", expandedTripId,
                updateTripReturns(expandedTripId, saveArgument(ExpandedTrip)),
                None)
  /\ UNCHANGED <<trips, selectedDate, expandedTripId, loading, mounted,
                 loadsInFlight, itemVars, tripVars, reportVars, dashVars,
                 authVars, deleteVars, formVars>>

\* updateTripReturns resolved: loadTrips up to the await of getTrips
UpdateResolved ==
  \E i \in 1..Len(saves) :
    /\ saves[i].awaits = "update"
    /\ saves' = [saves EXCEPT ![i].awaits = "list"]
    /\ loading' = TRUE
    /\ error' = Null
    /\ loadsInFlight' = loadsInFlight + 1
    /\ lastHandler' = SaveStep("updateResolved", saves[i].tripId, None, None)
    /\ UNCHANGED <<trips, selectedDate, expandedTripId, mounted,
                   savingTripId, itemVars, tripVars, reportVars, dashVars,
                   authVars, deleteVars, formVars>>

\* updateTripReturns rejected: the catch and the finally of the handler
UpdateRejected ==
  \E i \in 1..Len(saves) : \E responseMessage \in ResponseMessages :
    /\ saves[i].awaits = "update"
    /\ saves' = Without(saves, i)
    /\ error' = saveError(responseMessage)
    /\ savingTripId' = Null
    /\ lastHandler' = SaveStep("updateRejected", saves[i].tripId, None, None)
    /\ UNCHANGED <<trips, selectedDate, expandedTripId, loading, mounted,
                   loadsInFlight, itemVars, tripVars, reportVars, dashVars,
                   authVars, deleteVars, formVars>>

\* getTrips of the save resolved: the rest of loadTrips, then the finally
\* of the handler
SavedListResolved ==
  \E i \in 1..Len(saves) : \E data \in SavedLists :
    /\ saves[i].awaits = "list"
    /\ saves' = Without(saves, i)
    /\ trips' = setTrips(trips, data)
    /\ loading' = FALSE
    /\ loadsInFlight' = loadsInFlight - 1
    /\ savingTripId' = Null
    /\ lastHandler' = SaveStep("listResolved", saves[i].tripId, data, trips)
    /\ UNCHANGED <<selectedDate, expandedTripId, error, mounted, itemVars,
                   tripVars, reportVars, dashVars, authVars, deleteVars,
                   formVars>>

\* getTrips of the save rejected: the catch of loadTrips, then the finally
\* of the handler
SavedListRejected ==
  \E i \in 1..Len(saves) : \E responseMessage \in ResponseMessages :
    /\ saves[i].awaits = "list"
    /\ saves' = Without(saves, i)
    /\ error' = loadError(responseMessage)
    /\ loading' = FALSE
    /\ loadsInFlight' = loadsInFlight - 1
    /\ savingTripId' = Null
    /\ lastHandler' = SaveStep("listRejected", saves[i].tripId, None, None)
    /\ UNCHANGED <<trips, selectedDate, expandedTripId, mounted, itemVars,
                   tripVars, reportVars, dashVars, authVars, deleteVars,
                   formVars>>

NextSave ==
  \/ ToggleExpand
  \/ EditCash
  \/ SaveClick
  \/ UpdateResolved
  \/ UpdateRejected
  \/ SavedListResolved
  \/ SavedListRejected

SpecSave == InitSave /\ [][NextSave]_vars

\* how many calls of handleSaveTripReturns await the given request
Awaiting(s, what) == Cardinality({i \in 1..Len(s) : s[i].awaits = what})

\* the step of handleSaveTripReturns that a transition takes, if any
SaveStepTaken(step) ==
  /\ saves' # saves
  /\ lastHandler'.op = "handleSaveTripReturns"
  /\ lastHandler'.step = step

\* C18: a save sends one update request and no list request; when the
\* update request succeeds, one list request is sent; when the list
\* arrives, the local trip list becomes the list of the response, whatever
\* the local trips held (unsaved edits of other trips included).
C18_SaveRefetchesAndReplaces ==
  [][/\ SaveStepTaken("click") =>
          /\ Awaiting(saves', "update") = Awaiting(saves, "update") + 1
          /\ Awaiting(saves', "list") = Awaiting(saves, "list")
          /\ loadsInFlight' = loadsInFlight
          /\ trips' = trips
     /\ SaveStepTaken("updateResolved") =>
          /\ Awaiting(saves', "update") = Awaiting(saves, "update") - 1
          /\ Awaiting(saves', "list") = Awaiting(saves, "list") + 1
          /\ loadsInFlight' = loadsInFlight + 1
          /\ trips' = trips
     /\ SaveStepTaken("listResolved") =>
          /\ trips' = lastHandler'.data
          /\ lastHandler'.before = trips
          /\ Awaiting(saves', "update") = Awaiting(saves, "update")
          /\ Awaiting(saves', "list") = Awaiting(saves, "list") - 1
          /\ loadsInFlight' = loadsInFlight - 1
    ]_vars

\* the list of a save arrived while the other trip had an edit that was
\* never saved, and the edit is gone
C18_Witness ==
  /\ lastHandler # None
  /\ lastHandler.op = "handleSaveTripReturns"
  /\ lastHandler.step = "listResolved"
  /\ lastHandler.tripId = TripIds[1]
  /\ Len(lastHandler.before) = 2
  /\ lastHandler.before[2].cashAmount = Num(MaxAmt)
  /\ Len(trips) = 2
  /\ trips[2].cashAmount = Undefined
  /\ trips = lastHandler.data

\* C19: when the update request of a save fails, no list request is sent,
\* the local trip list stays as it is, an error message is set and
\* savingTripId is cleared, so that the save button of the trip is enabled
\* again.
C19_FailedSaveKeepsEdits ==
  [][SaveStepTaken("updateRejected") =>
       /\ loadsInFlight' = loadsInFlight
       /\ Awaiting(saves', "list") = Awaiting(saves, "list")
       /\ Awaiting(saves', "update") = Awaiting(saves, "update") - 1
       /\ trips' = trips
       /\ error' \in {Msg("Failed to save trip returns/amounts"),
                      Msg("message of the response")}
       /\ savingTripId' = Null
       /\ savingTripId' # lastHandler'.tripId
    ]_vars

\* the save of an edited trip failed: the edit is still there, the error is
\* shown and no save is in progress
C19_Witness ==
  /\ lastHandler # None
  /\ lastHandler.op = "handleSaveTripReturns"
  /\ lastHandler.step = "updateRejected"
  /\ \E i \in 1..Len(trips) :
       /\ trips[i]._id = lastHandler.tripId
       /\ trips[i].cashAmount = Num(MaxAmt)
  /\ error = Msg("Failed to save trip returns/amounts")
  /\ savingTripId = Null
  /\ loadsInFlight = 0

\* C27: while a save request for a trip is outstanding, savingTripId is
\* that trip, so that its save button is disabled and no second save of
\* the trip is outstanding, whatever saves of other trips happen meanwhile.
C27_SaveInProgressIsMarked ==
  /\ \A i \in 1..Len(saves) : savingTripId = saves[i].tripId
  /\ \A i, j \in 1..Len(saves) :
       saves[i].tripId = saves[j].tripId => i = j

\* what does hold: the trip whose save was started last is marked until a
\* save, of whichever trip, finishes
C27_LastStartedSaveIsMarked ==
  savingTripId # Null =>
    /\ saves # <<>>
    /\ savingTripId = saves[Len(saves)].tripId

(* ------------------------------------------------------------------ *)
(* SpecPayload: the request that a save sends after edits               *)
(* ------------------------------------------------------------------ *)
NextPayload ==
  \/ EditQtyReturn
  \/ EditSold
  \/ EditCashOrOnline
  \/ SaveClick
  \/ UpdateRejected

SpecPayload == InitEdit /\ [][NextPayload]_vars

\* the save button was clicked last: lastHandler.data is the request, and
\* the trips are still those the handler read
SaveClicked ==
  /\ lastHandler # None
  /\ lastHandler.op = "handleSaveTripReturns"
  /\ lastHandler.step = "click"

\* the object that handleSaveTripReturns handed to updateTripReturns
SaveArgumentSent == lastHandler.data.data.items

\* C22: for every item of a saved trip, the quantitySold of the save
\* payload is the effective sold quantity that the view displays for the
\* item (getSoldForItem), so that the payload has
\* quantitySold <= max(quantityOut - quantityReturn, 0).
C22_PayloadSoldIsEffectiveSold ==
  SaveClicked =>
    \A j \in 1..Len(HandledTrip.items) :
      LET line == HandledTrip.items[j]
          sent == SaveArgumentSent.items[j]
      IN /\ sent.quantitySold = Num(getSoldForItem(line))
         /\ sent.quantitySold.v
              <= Max(sent.quantityOut.v - sent.quantityReturn.v, 0)

\* the same statement while the stored line is consistent
C22_ConsistentLinesAreSentAsShown ==
  SaveClicked =>
    \A j \in 1..Len(HandledTrip.items) :
      LET line == HandledTrip.items[j]
          sent == SaveArgumentSent.items[j]
          out == NumberOrZero(line.quantityOut)
          ret == NumberOrZero(line.quantityReturn)
      IN (/\ NumberOrZero(line.quantitySold) <= Max(out - ret, 0)
          /\ NumberOrZero(line.quantitySold) >= 0) =>
           sent.quantitySold = Num(getSoldForItem(line))

\* the value of a numeric field in memory, 0 when it is missing
InMemory(object, field) == Num(NumberOrZero(Prop(object, field)))

\* the given list and amounts are those of the trip in memory
CarriesTrip(list, cashAmount, onlineAmount, t) ==
  /\ Len(list) = Len(t.items)
  /\ \A j \in 1..Len(t.items) :
       /\ list[j].quantityReturn = InMemory(t.items[j], "quantityReturn")
       /\ list[j].quantitySold = InMemory(t.items[j], "quantitySold")
       /\ list[j].amountReturned = InMemory(t.items[j], "amountReturned")
       /\ list[j].differenceReason
            = Coalesce(Prop(t.items[j], "differenceReason"), Str(<<>>))
  /\ cashAmount = InMemory(t, "cashAmount")
  /\ onlineAmount = InMemory(t, "onlineAmount")

\* C23: the update request of a save addresses the id of the saved trip,
\* and its body has the per-item list as its top-level field items and the
\* trip-level cashAmount and onlineAmount beside it, each equal to the
\* value in memory when the save was started.
C23_UpdateBodyCarriesItemsAndAmounts ==
  SaveClicked =>
    LET request == lastHandler.data
        body == request.data
    IN /\ request.url.tripId = HandledTrip._id
       /\ {"items", "cashAmount", "onlineAmount"} \subseteq DOMAIN body
       /\ CarriesTrip(body.items, body.cashAmount, body.onlineAmount,
                      HandledTrip)

\* what does hold: the request addresses the saved trip, and the object
\* handed to updateTripReturns carries the list and the amounts
C23_ArgumentCarriesItemsAndAmounts ==
  SaveClicked =>
    LET request == lastHandler.data
        argument == SaveArgumentSent
    IN /\ request.url.tripId = HandledTrip._id
       /\ DOMAIN request.data = {"items"}
       /\ CarriesTrip(argument.items, argument.cashAmount,
                      argument.onlineAmount, HandledTrip)

(* ------------------------------------------------------------------ *)
(* SpecDelete: deleting a trip on the ActiveTripsPage, beside saves     *)
(* ------------------------------------------------------------------ *)
\* prev.filter((t) => t._id !== tripId)
removeTrip(prev, tripId) ==
  LET Kept(t) == t._id # tripId
  IN SelectSeq(prev, Kept)

\* err?.response?.data?.message || "Failed to delete trip"
deleteError(responseMessage) ==
  IF responseMessage = Undefined THEN Msg("Failed to delete trip")
  ELSE responseMessage

\* the page after its first load, showing what the backend holds
InitDelete ==
  /\ trips = <<SavedTrip(1, Undefined), SavedTrip(2, Undefined)>>
  /\ backend = trips
  /\ selectedDate = Str(Day1)
  /\ expandedTripId = Null
  /\ loading = FALSE
  /\ error = Null
  /\ mounted = TRUE
  /\ loadsInFlight = 0
  /\ savingTripId = Null
  /\ deletingTripId = Null
  /\ saves = <<>>
  /\ lastHandler = None
  /\ IdleItem
  /\ IdleTrip
  /\ IdleReports
  /\ IdleDash
  /\ IdleAuth
  /\ IdleForm

\* a step of handleDeleteTrip: data is the request it sent, closure is the
\* expandedTripId of the render whose handler was called
DeleteStep(step, tripId, data, closure) ==
  [op |-> "handleDeleteTrip", step |-> step, tripId |-> tripId,
   data |-> data, closure |-> closure]

\* a step of the backend
BackendStep(step, tripId) ==
  [op |-> "backend", step |-> step, tripId |-> tripId]

\* the Delete Trip button of a trip of the day, and Cancel in the
\* confirmation: handleDeleteTrip returns
DeleteDeclined ==
  /\ \E i \in 1..Len(tripsForDate) :
       lastHandler' =
         DeleteStep("declined", tripsForDate[i]._id, None, expandedTripId)
  /\ UNCHANGED <<pageVars, savingTripId, saves, itemVars, tripVars,
                 reportVars, dashVars, authVars, deleteVars, formVars>>

\* the Delete Trip button and OK in the confirmation: handleDeleteTrip up
\* to the await of deleteTrip
DeleteClick ==
  /\ Len(saves) < MaxSaves
  /\ \E i \in 1..Len(tripsForDate) :
       LET tripId == tripsForDate[i]._id
       IN /\ deletingTripId # tripId
          /\ deletingTripId' = tripId
          /\ saves' = Append(saves,
                             [tripId |-> tripId, awaits |-> "delete",
                              closure |-> expandedTripId])
          /\ lastHandler' =
               DeleteStep("click", tripId, deleteTrip(tripId), expandedTripId)
  /\ error' = Null
  /\ UNCHANGED <<trips, selectedDate, expandedTripId, loading, mounted,
                 loadsInFlight, savingTripId, backend, itemVars, tripVars,
                 reportVars, dashVars, authVars, formVars>>

\* the backend deletes the trip and answers
BackendDelete ==
  \E i \in 1..Len(saves) :
    /\ saves[i].awaits = "delete"
    /\ \E k \in 1..Len(backend) : backend[k]._id = saves[i].tripId
    /\ backend' = removeTrip(backend, saves[i].tripId)
    /\ saves' = [saves EXCEPT ![i].awaits = "deleted"]
    /\ lastHandler' = BackendStep("delete", saves[i].tripId)
    /\ UNCHANGED <<pageVars, savingTripId, deletingTripId, itemVars,
                   tripVars, reportVars, dashVars, authVars, formVars>>

\* deleteTrip resolved: the rest of the try block, then the finally
DeleteResolved ==
  \E i \in 1..Len(saves) :
    LET tripId == saves[i].tripId
    IN /\ saves[i].awaits = "deleted"
       /\ trips' = removeTrip(trips, tripId)
       /\ expandedTripId' =
            IF saves[i].closure = tripId THEN Null ELSE expandedTripId
       /\ deletingTripId' = Null
       /\ saves' = Without(saves, i)
       /\ lastHandler' =
            DeleteStep("resolved", tripId, None, saves[i].closure)
       /\ UNCHANGED <<selectedDate, loading, error, mounted, loadsInFlight,
                      savingTripId, backend, itemVars, tripVars, reportVars,
                      dashVars, authVars, formVars>>

\* deleteTrip rejected (the backend does not hold the trip, or fails):
\* the catch and the finally
DeleteRejected ==
  \E i \in 1..Len(saves) : \E responseMessage \in ResponseMessages :
    /\ saves[i].awaits = "delete"
    /\ error' = deleteError(responseMessage)
    /\ deletingTripId' = Null
    /\ saves' = Without(saves, i)
    /\ lastHandler' =
         DeleteStep("rejected", saves[i].tripId, None, saves[i].closure)
    /\ UNCHANGED <<trips, selectedDate, expandedTripId, loading, mounted,
                   loadsInFlight, savingTripId, backend, itemVars, tripVars,
                   reportVars, dashVars, authVars, formVars>>

\* the backend answers the getTrips request of a save with what it holds
BackendList ==
  \E i \in 1..Len(saves) :
    /\ saves[i].awaits = "list"
    /\ saves' = [saves EXCEPT ![i] =
                   [tripId |-> saves[i].tripId, awaits |-> "listed",
                    data |-> backend]]
    /\ lastHandler' = BackendStep("list", saves[i].tripId)
    /\ UNCHANGED <<pageVars, savingTripId, deleteVars, itemVars, tripVars,
                   reportVars, dashVars, authVars, formVars>>

\* getTrips of the save resolved with the answer of the backend: the rest
\* of loadTrips, then the finally of handleSaveTripReturns
BackendListResolved ==
  \E i \in 1..Len(saves) :
    /\ saves[i].awaits = "listed"
    /\ saves' = Without(saves, i)
    /\ trips' = setTrips(trips, saves[i].data)
    /\ loading' = FALSE
    /\ loadsInFlight' = loadsInFlight - 1
    /\ savingTripId' = Null
    /\ lastHandler' =
         SaveStep("listResolved", saves[i].tripId, saves[i].data, trips)
    /\ UNCHANGED <<selectedDate, expandedTripId, error, mounted, itemVars,
                   tripVars, reportVars, dashVars, authVars, deleteVars,
                   formVars>>

NextDelete ==
  \/ ToggleExpand
  \/ DeleteDeclined
  \/ DeleteClick
  \/ BackendDelete
  \/ DeleteResolved
  \/ DeleteRejected

SpecDelete == InitDelete /\ [][NextDelete]_vars

\* the step of handleDeleteTrip that a transition takes, if any
DeleteStepTaken(step) ==
  /\ lastHandler' # lastHandler \/ saves' # saves
  /\ lastHandler'.op = "handleDeleteTrip"
  /\ lastHandler'.step = step

\* how many delete requests the backend has not yet answered to the page
DeletesAwaited(s) ==
  Cardinality({i \in 1..Len(s) : s[i].awaits \in {"delete", "deleted"}})

\* after is before without the trip tripId, every other trip as it was
RemovedExactly(before, after, tripId) ==
  /\ \A j \in 1..Len(after) : after[j]._id # tripId
  /\ Len(after)
       = Len(before)
           - Cardinality({i \in 1..Len(before) : before[i]._id = tripId})
  /\ \A i \in 1..Len(before) :
       before[i]._id # tripId =>
         \E j \in 1..Len(after) : after[j] = before[i]

\* what a delete does to the trip list, to the requests and to the error
DeleteEffects ==
  /\ DeleteStepTaken("declined") =>
       /\ saves' = saves
       /\ UNCHANGED <<pageVars, deleteVars, formVars>>
  /\ DeleteStepTaken("click") =>
       /\ DeletesAwaited(saves') = DeletesAwaited(saves) + 1
       /\ lastHandler'.data = deleteTrip(lastHandler'.tripId)
       /\ trips' = trips
  /\ DeleteStepTaken("resolved") =>
       /\ \E i \in 1..Len(trips) : trips[i]._id = lastHandler'.tripId
       /\ RemovedExactly(trips, trips', lastHandler'.tripId)
       /\ DeletesAwaited(saves') = DeletesAwaited(saves) - 1
  /\ DeleteStepTaken("rejected") =>
       /\ trips' = trips
       /\ expandedTripId' = expandedTripId
       /\ error' \in {Msg("Failed to delete trip"),
                      Msg("message of the response")}

\* C24: after a confirmed delete whose request succeeded, exactly that
\* trip is gone from the local list and every other trip is as it was, and
\* the expanded-trip marker is cleared if it pointed at the deleted trip;
\* a declined confirmation sends no request; a failed request leaves the
\* list as it is and sets an error.
C24_DeleteIsAllOrNothing ==
  [][/\ DeleteEffects
     /\ DeleteStepTaken("resolved") =>
          (expandedTripId = lastHandler'.tripId => expandedTripId' = Null)
    ]_vars

\* what does hold: the marker is cleared if it pointed at the deleted trip
\* when the Delete Trip button was clicked
C24_MarkerOfTheClickIsCleared ==
  [][/\ DeleteEffects
     /\ DeleteStepTaken("resolved") =>
          expandedTripId' =
            IF lastHandler'.closure = lastHandler'.tripId
              THEN Null ELSE expandedTripId
    ]_vars

\* a trip was deleted while it was collapsed and was expanded before the
\* answer came: it is gone and the marker still names it
C24_DanglingMarker ==
  /\ lastHandler # None
  /\ lastHandler.op = "handleDeleteTrip"
  /\ lastHandler.step = "resolved"
  /\ expandedTripId = lastHandler.tripId
  /\ \A i \in 1..Len(trips) : trips[i]._id # lastHandler.tripId

\* deleting beside the saves of other trips and their list requests
NextRace ==
  \/ ToggleExpand
  \/ DeleteClick
  \/ BackendDelete
  \/ DeleteResolved
  \/ SaveClick
  \/ UpdateResolved
  \/ BackendList
  \/ BackendListResolved

SpecRace == InitDelete /\ [][NextRace]_vars

\* the list holds a trip with the given id
Holds(list, tripId) == \E i \in 1..Len(list) : list[i]._id = tripId

\* C28: once a delete of a trip has succeeded and the trip has been
\* removed from the local list, the trip is never in the local list again,
\* whatever list requests were sent before the delete completed.
C28_DeletedTripStaysGone ==
  \A k \in 1..2 :
    (/\ ~Holds(backend, TripIds[k])
     /\ \A i \in 1..Len(saves) :
          ~(saves[i].awaits = "deleted" /\ saves[i].tripId = TripIds[k])) =>
      ~Holds(trips, TripIds[k])

(* ------------------------------------------------------------------ *)
(* SpecForm: the trip form of the TripsPage                             *)
(* ------------------------------------------------------------------ *)
\* new Date().toISOString().slice(0, 10), on the day of the visit
Today == <<"2", "0", "2", "4", "-", "0", "1", "-", "0", "5">>

\* the initial state of tripForm, which handleReset sets again
EmptyTripForm ==
  [distributors |-> <<>>, date |-> Str(Today), remarks |-> Str(<<>>),
   groupName |-> Str(<<>>), items |-> <<>>]

\* handleChangeTripField
handleChangeTripField(form, field, value) == [form EXCEPT ![field] = value]

\* handleAddItem, with the value of itemIdCounter
handleAddItem(form, id) ==
  [form EXCEPT !.items =
     Append(@, [id |-> id, bookId |-> Str(<<>>), quantityOut |-> Str(<<>>)])]

\* handleItemChange of the TripsPage
handleFormItemChange(form, id, field, value) ==
  [form EXCEPT !.items =
     [k \in 1..Len(@) |->
        IF @[k].id = id THEN [@[k] EXCEPT ![field] = value] ELSE @[k]]]

isGroupTrip(form) == Len(form.distributors) > 1
isSingleTrip(form) == Len(form.distributors) = 1

\* typeof item.quantityOut === "number" ? item.quantityOut : 0
FormQuantity(it) ==
  IF it.quantityOut.t \in {"number", "NaN"} THEN it.quantityOut ELSE Num(0)

\* !qty || qty <= 0
InvalidQuantity(qty) == qty.t = "NaN" \/ qty.v = 0 \/ qty.v <= 0

\* the loop of handleSubmit over the rows: the first message, if any
RECURSIVE ValidateRows(_, _)
ValidateRows(items, group) ==
  IF items = <<>> THEN None
  ELSE IF Falsy(Head(items).bookId)
         THEN Msg("Each row must have a book selected.")
  ELSE IF ~group /\ InvalidQuantity(FormQuantity(Head(items)))
         THEN Msg("Each row must have a valid Quantity Out.")
  ELSE ValidateRows(Tail(items), group)

\* a validation that accepts any quantity
validateTrip_AnyQuantity(form) ==
  IF Len(form.distributors) = 0
    THEN Msg("Please select at least one distributor.")
  ELSE IF Falsy(form.date) THEN Msg("Please select a date.")
  ELSE IF Len(form.items) = 0
    THEN Msg("Please add at least one book item.")
  ELSE ValidateRows(form.items, TRUE)

\* the checks of handleSubmit before the try block: the message shown, or
\* None when the form is sent
validateTrip(form) ==
  IF Len(form.distributors) = 0
    THEN Msg("Please select at least one distributor.")
  ELSE IF Falsy(form.date) THEN Msg("Please select a date.")
  ELSE IF Len(form.items) = 0
    THEN Msg("Please add at least one book item.")
  ELSE ValidateRows(form.items, isGroupTrip(form))

\* x || undefined
OrUndefined(x) == IF Falsy(x) THEN Undefined ELSE x

\* itemsPayload and payload of handleSubmit
createPayload(form) ==
  LET itemsPayload ==
        [k \in 1..Len(form.items) |->
           [book |-> form.items[k].bookId,
            quantityOut |-> IF isGroupTrip(form) THEN Num(0)
                            ELSE FormQuantity(form.items[k])]]
      payload == [date |-> form.date,
                  remarks |-> OrUndefined(form.remarks),
                  items |-> itemsPayload]
  IN IF isGroupTrip(form)
       THEN [f \in DOMAIN payload \cup {"distributors", "groupName"} |->
               IF f = "distributors" THEN form.distributors
               ELSE IF f = "groupName" THEN OrUndefined(form.groupName)
               ELSE payload[f]]
     ELSE IF isSingleTrip(form)
       THEN SpreadWith(payload, "distributor", form.distributors[1])
     ELSE payload

\* err?.response?.data?.message || "Failed to save trip"
createError(responseMessage) ==
  IF responseMessage = Undefined THEN Msg("Failed to save trip")
  ELSE responseMessage

MaxItemIds == 2

FormDistributors ==
  {<<>>, <<Str(<<"d", "1">>)>>, <<Str(<<"d", "1">>), Str(<<"d", "2">>)>>}
FormDates == {Str(<<>>), Str(Today)}
FormBooks == {Str(<<>>), Str(<<"b", "1">>)}
FormQuantities == {Str(<<>>), Num(0 - 1), Num(0), Num(MaxQty)}

InitForm ==
  /\ tripForm = EmptyTripForm
  /\ itemIdCounter = 1
  /\ saving = FALSE
  /\ tripError = Null
  /\ creates = <<>>
  /\ lastSubmit = None
  /\ IdleItem
  /\ IdleTrip
  /\ IdlePage
  /\ IdleReports
  /\ IdleDash
  /\ IdleSave
  /\ IdleAuth
  /\ IdleDelete

\* the distributors select and the date input
ChangeTripField ==
  /\ \/ \E vals \in FormDistributors :
          tripForm' = handleChangeTripField(tripForm, "distributors", vals)
     \/ \E d \in FormDates :
          tripForm' = handleChangeTripField(tripForm, "date", d)
  /\ UNCHANGED <<itemIdCounter, saving, tripError, creates, lastSubmit,
                 itemVars, tripVars, pageVars, reportVars, dashVars,
                 saveVars, authVars, deleteVars>>

\* the Add Book button
AddItem ==
  /\ Len(tripForm.items) < MaxItems
  /\ itemIdCounter <= MaxItemIds
  /\ tripForm' = handleAddItem(tripForm, itemIdCounter)
  /\ itemIdCounter' = itemIdCounter + 1
  /\ UNCHANGED <<saving, tripError, creates, lastSubmit, itemVars, tripVars,
                 pageVars, reportVars, dashVars, saveVars, authVars,
                 deleteVars>>

\* the book select of a row
ChangeItemBook ==
  /\ \E k \in 1..Len(tripForm.items) : \E b \in FormBooks :
       tripForm' = handleFormItemChange(tripForm, tripForm.items[k].id,
                                        "bookId", b)
  /\ UNCHANGED <<itemIdCounter, saving, tripError, creates, lastSubmit,
                 itemVars, tripVars, pageVars, reportVars, dashVars,
                 saveVars, authVars, deleteVars>>

\* the Qty Out input of a row, which a group trip does not render
ChangeItemQuantity ==
  /\ ~isGroupTrip(tripForm)
  /\ \E k \in 1..Len(tripForm.items) : \E q \in FormQuantities :
       tripForm' = handleFormItemChange(tripForm, tripForm.items[k].id,
                                        "quantityOut", q)
  /\ UNCHANGED <<itemIdCounter, saving, tripError, creates, lastSubmit,
                 itemVars, tripVars, pageVars, reportVars, dashVars,
                 saveVars, authVars, deleteVars>>

\* the Reset button: handleReset
ResetClick ==
  /\ tripForm' = EmptyTripForm
  /\ UNCHANGED <<itemIdCounter, saving, tripError, creates, lastSubmit,
                 itemVars, tripVars, pageVars, reportVars, dashVars,
                 saveVars, authVars, deleteVars>>

\* handleSubmit returns after a message: a check failed
SubmitInvalid ==
  /\ ~saving
  /\ validateTrip(tripForm) # None
  /\ lastSubmit' = [step |-> "invalid"]
  /\ UNCHANGED <<tripForm, itemIdCounter, saving, tripError, creates,
                 itemVars, tripVars, pageVars, reportVars, dashVars,
                 saveVars, authVars, deleteVars>>

\* handleSubmit up to the await of api.post("/trips", payload)
SubmitSend ==
  /\ ~saving
  /\ validateTrip(tripForm) = None
  /\ saving' = TRUE
  /\ tripError' = Null
  /\ creates' = Append(creates, createPayload(tripForm))
  /\ lastSubmit' = [step |-> "sent"]
  /\ UNCHANGED <<tripForm, itemIdCounter, itemVars, tripVars, pageVars,
                 reportVars, dashVars, saveVars, authVars, deleteVars>>

\* api.post resolved: handleReset, then the finally
CreateResolved ==
  /\ creates # <<>>
  /\ creates' = Tail(creates)
  /\ tripForm' = EmptyTripForm
  /\ saving' = FALSE
  /\ lastSubmit' = [step |-> "resolved"]
  /\ UNCHANGED <<itemIdCounter, tripError, itemVars, tripVars, pageVars,
                 reportVars, dashVars, saveVars, authVars, deleteVars>>

\* api.post rejected: the catch, then the finally
CreateRejected ==
  /\ creates # <<>>
  /\ creates' = Tail(creates)
  /\ tripError' = createError(Undefined)
  /\ saving' = FALSE
  /\ lastSubmit' = [step |-> "rejected"]
  /\ UNCHANGED <<tripForm, itemIdCounter, itemVars, tripVars, pageVars,
                 reportVars, dashVars, saveVars, authVars, deleteVars>>

NextForm ==
  \/ ChangeTripField
  \/ AddItem
  \/ ChangeItemBook
  \/ ChangeItemQuantity
  \/ ResetClick
  \/ SubmitInvalid
  \/ SubmitSend
  \/ CreateResolved
  \/ CreateRejected

SpecForm == InitForm /\ [][NextForm]_vars

\* C26: a create request is sent only when a distributor is selected, a
\* date is set, there is a row, every row has a book and, for a trip of
\* one distributor, every row's quantityOut is a number greater than 0;
\* every item of the payload carries only book and quantityOut, which is
\* 0 for every item of a trip of several distributors; a submission
\* resets the form only after its request succeeded.
C26_CreateOnlyWhenValidAndResetOnSuccess ==
  [][/\ Len(creates') > Len(creates) =>
          LET payload == creates'[Len(creates')]
              several == Len(tripForm.distributors) > 1
          IN /\ Len(tripForm.distributors) >= 1
             /\ tripForm.date.s # <<>>
             /\ Len(tripForm.items) >= 1
             /\ Len(payload.items) = Len(tripForm.items)
             /\ \A k \in 1..Len(tripForm.items) :
                  LET it == tripForm.items[k]
                      sent == payload.items[k]
                  IN /\ it.bookId.s # <<>>
                     /\ ~several =>
                          /\ it.quantityOut.t = "number"
                          /\ it.quantityOut.v > 0
                          /\ sent.quantityOut = it.quantityOut
                     /\ several => sent.quantityOut = Num(0)
                     /\ DOMAIN sent = {"book", "quantityOut"}
                     /\ sent.book = it.bookId
             /\ tripForm' = tripForm
     /\ lastSubmit' # lastSubmit =>
          IF lastSubmit'.step = "resolved"
            THEN /\ tripForm' = EmptyTripForm
                 /\ Len(creates') = Len(creates) - 1
            ELSE tripForm' = tripForm
    ]_vars

\* a trip of two distributors was sent whose row holds a quantity typed in
\* while one distributor was selected: the payload carries 0
C26_Witness ==
  /\ lastSubmit # None
  /\ lastSubmit.step = "sent"
  /\ Len(tripForm.distributors) = 2
  /\ Len(tripForm.items) = 1
  /\ tripForm.items[1].quantityOut = Num(MaxQty)
  /\ Len(creates) = 1
  /\ creates[1].items[1].quantityOut = Num(0)
  /\ saving

(* ------------------------------------------------------------------ *)
(* Incomplete records (checked under SpecDash)                          *)
(* ------------------------------------------------------------------ *)
\* the sold quantity of a line when its missing fields count as 0
StatedDaySold(line) ==
  Max(NumberOrZero(line.quantityOut) - NumberOrZero(line.quantityReturn), 0)

\* C20: on lines whose quantityOut, quantityReturn, amountReturned or book
\* is missing, the trip summary, the report item metrics and the day
\* aggregate treat the missing field as 0 and yield numbers: the totals of
\* a day are numbers and its booksSold is the sum of
\* max(quantityOut - quantityReturn, 0) over the lines of the day.
C20_MissingFieldsCountAsZero ==
  /\ \A i \in 1..Len(dashTrips) :
       LET lines == dashTrips[i].items
           sum == computeTripSummary(dashTrips[i])
       IN /\ sum.booksOut
               = SumSeq([j \in 1..Len(lines) |->
                           NumberOrZero(lines[j].quantityOut)])
          /\ sum.booksReturn
               = SumSeq([j \in 1..Len(lines) |->
                           NumberOrZero(lines[j].quantityReturn)])
          /\ sum.amountReturned
               = SumSeq([j \in 1..Len(lines) |->
                           NumberOrZero(lines[j].amountReturned)])
          /\ \A j \in 1..Len(lines) :
               getItemMetrics(lines[j], PriceOf(lines[j].book)).itemRemaining
                 = StatedDaySold(lines[j])
  /\ \A k \in 1..Len(dailyAggs) :
       LET day == dailyAggs[k]
           sold == [i \in 1..Len(dashTrips) |->
                      IF dashTrips[i].date # day.date THEN 0
                      ELSE SumSeq([j \in 1..Len(dashTrips[i].items) |->
                                     StatedDaySold(dashTrips[i].items[j])])]
       IN /\ day.booksSold.t = "number"
          /\ day.expectedAmount.t = "number"
          /\ day.amountCollected.t = "number"
          /\ day.booksSold = Num(SumSeq(sold))

====
